---- MODULE Spec2Model ----
(***************************************************************************)
(* Version lineage and temporal materialization engine of the contract     *)
(* hierarchy system: content addressing, family resolution, document       *)
(* version assignment, the supersession fold (materialize-to-now and       *)
(* replay-to-cutoff) and the read side built on them.                      *)
(*                                                                         *)
(* Conventions.  A nullable column holds NULL (the empty tuple) or         *)
(* Some(v) (the one-element tuple).  A character string that the code      *)
(* transforms (party names, section ids) is a sequence of code points; a   *)
(* clause text is a sequence of opaque tokens.  A SHA-256 digest is the    *)
(* tagged preimage, i.e. the hash is taken to be collision free.           *)
(* created_at columns hold the arrival rank of the row in its table: the   *)
(* code only ever orders by them.                                          *)
(***************************************************************************)
EXTENDS Integers, Sequences, FiniteSets, TLC

VARIABLES
    family,                  \* table family
    contract_document,       \* table contract_document
    clause_node,             \* table clause_node
    family_section_current,  \* table family_section_current
    clock,                   \* the wall clock read by _utcnow()
    session,                 \* per database session: the ingestion under way and
                             \* the rows flushed but not yet committed
    ret                      \* the last call and what it returned

vars == <<family, contract_document, clause_node, family_section_current, clock,
          session, ret>>

\* The database sessions that may be open at once.  Session 1 stands for the
\* sessions ingest_document opens for itself, one per call; session 2 is a
\* session the caller passes to every call (ingest_directory given a
\* session).
Sessions == {1, 2}

OwnSessions == {1}

\* A session with no ingestion under way and nothing flushed.
Idle ==
    [pc |-> "idle", own_session |-> TRUE, doc_id |-> <<>>, family_id |-> <<>>,
     found |-> FALSE, pending_docs |-> {}, pending_family |-> {}]

NoSessions == [s \in Sessions |-> Idle]

----------------------------------------------------------------------------
\* Bounds of the model.

MaxNodes == 3
MaxClock == 4
MaxDate == 2
MaxDocs == 3
MaxNameLen == 2
MaxIngest == 4

----------------------------------------------------------------------------
\* Nullable values.

NULL == <<>>
Some(x) == <<x>>
IsNull(x) == x = <<>>
Val(x) == x[1]

----------------------------------------------------------------------------
\* Character strings as sequences of code points.

SP == 32
BAR == 124
Str_5 == <<53>>
Str_5_3 == <<53, 46, 51>>
Str_acme == <<97, 99, 109, 101>>
Str_Acme_sp == <<32, 65, 99, 109, 101>>
Str_widget == <<119, 105, 100>>
Str_Widget == <<87, 105, 100, 32>>
Str_gadget == <<103, 97, 100>>

\* str.lower() on one code point (ASCII letters).
LowerChar(c) == IF c >= 65 /\ c <= 90 THEN c + 32 ELSE c

Lower(s) == [i \in 1..Len(s) |-> LowerChar(s[i])]

\* The ASCII code points for which str.isspace() is true.
Whitespace == (9..13) \cup (28..32)

RECURSIVE LStrip(_)
LStrip(s) == IF s # <<>> /\ Head(s) \in Whitespace THEN LStrip(Tail(s)) ELSE s

RECURSIVE RStrip(_)
RStrip(s) ==
    IF s # <<>> /\ s[Len(s)] \in Whitespace THEN RStrip(SubSeq(s, 1, Len(s) - 1)) ELSE s

\* A strip that would leave trailing whitespace in place.
Strip_leading_only(s) == LStrip(s)

\* str.strip()
Strip(s) == RStrip(LStrip(s))

\* Python's < on str: lexicographic on code points.
RECURSIVE StrLess(_, _)
StrLess(s, t) ==
    IF t = <<>> THEN FALSE
    ELSE IF s = <<>> THEN TRUE
    ELSE IF Head(s) # Head(t) THEN Head(s) < Head(t)
    ELSE StrLess(Tail(s), Tail(t))

\* sorted([a, b])
Sorted2(a, b) == IF StrLess(b, a) THEN <<b, a>> ELSE <<a, b>>

\* s contains q as a contiguous substring.
Contains(s, q) ==
    \E i \in 1..(Len(s) - Len(q) + 1) : SubSeq(s, i, i + Len(q) - 1) = q

----------------------------------------------------------------------------
\* Content addressing (ingestion/hashing.py).

Sha256(x) == <<"sha256", x>>

compute_file_hash(pdf_bytes) == Sha256(pdf_bytes)

compute_doc_id(fhash) == Sha256(fhash)

compute_node_id(doc_id, page, span_start, span_end, canonical_section_id) ==
    Sha256(<<doc_id, "|", page, "|", span_start, "|", span_end, "|", canonical_section_id>>)

NormParts(partyA_norm, partyB_norm) ==
    Sorted2(Lower(Strip(partyA_norm)), Lower(Strip(partyB_norm)))

compute_family_keys_hash_unsorted(partyA_norm, partyB_norm) ==
    Sha256(Lower(Strip(partyA_norm)) \o <<BAR>> \o Lower(Strip(partyB_norm)))

compute_family_keys_hash(partyA_norm, partyB_norm) ==
    LET parts == NormParts(partyA_norm, partyB_norm)
    IN  Sha256(parts[1] \o <<BAR>> \o parts[2])

compute_family_id(family_keys_hash) == Sha256(family_keys_hash)

----------------------------------------------------------------------------
\* Row selection and ordering shared by the fold's two implementations.

\* WHERE family_id = :fid AND canonical_section_id = :sid
KeyNodes(nodes, family_id, canonical_section_id) ==
    {n \in nodes : n.family_id = family_id /\ n.canonical_section_id = canonical_section_id}

\* effective_ts ASC NULLS LAST: a sorts strictly before b.
TsBefore(a, b) ==
    /\ ~IsNull(a.effective_ts)
    /\ IsNull(b.effective_ts) \/ Val(a.effective_ts) < Val(b.effective_ts)

\* effective_ts ASC NULLS LAST, created_at ASC
TsCreatedBefore(a, b) ==
    \/ TsBefore(a, b)
    \/ ~TsBefore(b, a) /\ a.created_at < b.created_at

\* ORDER BY effective_ts ASC NULLS LAST: every listing of the rows S the
\* query may return (rows with equal effective_ts come in any order).
RECURSIVE ListingsByTs(_)
ListingsByTs(S) ==
    IF S = {} THEN {<<>>}
    ELSE UNION {{<<m>> \o q : q \in ListingsByTs(S \ {m})} :
                   m \in {x \in S : \A y \in S : ~TsBefore(y, x)}}

\* ORDER BY effective_ts ASC NULLS LAST, created_at ASC: the listing of S.
RECURSIVE ListByTsCreated(_)
ListByTsCreated(S) ==
    IF S = {} THEN <<>>
    ELSE LET m == CHOOSE x \in S : \A y \in S \ {x} : TsCreatedBefore(x, y)
         IN  <<m>> \o ListByTsCreated(S \ {m})

\* The documents of the listed nodes whose doc_type is "restatement".
RestatementDocIds(nodes, docs) ==
    {d.doc_id : d \in {x \in docs : /\ x.doc_type = Some("restatement")
                                    /\ \E n \in nodes : n.doc_id = x.doc_id}}

\* action = (node.change_action or "NO_CHANGE").upper()
ActionOf(node) ==
    IF IsNull(node.change_action) THEN "NO_CHANGE" ELSE Val(node.change_action)

\* The fold's state before the first node.
FoldInit ==
    [base_text |-> NULL, base_node_id |-> NULL, base_effective_ts |-> NULL,
     is_deleted |-> FALSE, append_chain |-> <<>>]

\* "\n\n".join(parts): each text is a token sequence, the separator one token.
Sep == <<"\n\n">>

RECURSIVE JoinParts(_)
JoinParts(parts) ==
    IF Len(parts) = 1 THEN parts[1]
    ELSE parts[1] \o Sep \o JoinParts(Tail(parts))

\* parts = [base_text] if base_text else []; parts.extend(append_chain);
\* "\n\n".join(parts) if parts else None
ComposeText(st) ==
    LET parts == (IF ~IsNull(st.base_text) /\ Val(st.base_text) # <<>>
                  THEN <<Val(st.base_text)>> ELSE <<>>) \o st.append_chain
    IN  IF parts # <<>> THEN Some(JoinParts(parts)) ELSE NULL

----------------------------------------------------------------------------
\* materialize_section: the supersession fold (materialization/current_state.py).

\* A node of a restatement document resets the baseline.
mat_restatement(st, node) ==
    [base_text |-> Some(node.clause_text), base_node_id |-> Some(node.node_id),
     base_effective_ts |-> node.effective_ts, is_deleted |-> FALSE, append_chain |-> <<>>]

\* A REPLACE that would keep the pending appends.
mat_replace_keeping_chain(st, node) ==
    [st EXCEPT !.base_text = Some(node.clause_text),
               !.base_node_id = Some(node.node_id),
               !.base_effective_ts = node.effective_ts,
               !.is_deleted = FALSE]

mat_replace(st, node) ==
    [base_text |-> Some(node.clause_text), base_node_id |-> Some(node.node_id),
     base_effective_ts |-> node.effective_ts, is_deleted |-> FALSE, append_chain |-> <<>>]

\* An APPEND that would put its text at the head of the chain.
mat_append_prepending(st, node) ==
    [st EXCEPT !.append_chain = <<node.clause_text>> \o st.append_chain,
               !.base_node_id = Some(node.node_id),
               !.base_effective_ts = node.effective_ts,
               !.is_deleted = FALSE]

mat_append(st, node) ==
    [st EXCEPT !.append_chain = Append(st.append_chain, node.clause_text),
               !.base_node_id = Some(node.node_id),
               !.base_effective_ts = node.effective_ts,
               !.is_deleted = FALSE]

mat_add_new(st, node) ==
    IF IsNull(st.base_text)
    THEN [st EXCEPT !.base_text = Some(node.clause_text),
                    !.base_node_id = Some(node.node_id),
                    !.base_effective_ts = node.effective_ts,
                    !.is_deleted = FALSE]
    ELSE [base_text |-> Some(node.clause_text), base_node_id |-> Some(node.node_id),
          base_effective_ts |-> node.effective_ts, is_deleted |-> FALSE,
          append_chain |-> <<>>]

mat_delete(st, node) ==
    [base_text |-> NULL, base_node_id |-> NULL, base_effective_ts |-> node.effective_ts,
     is_deleted |-> TRUE, append_chain |-> <<>>]

mat_no_change(st, node) ==
    IF IsNull(st.base_text)
    THEN [st EXCEPT !.base_text = Some(node.clause_text),
                    !.base_node_id = Some(node.node_id),
                    !.base_effective_ts = node.effective_ts,
                    !.is_deleted = FALSE]
    ELSE st

\* A loop body that would branch on change_action alone.
mat_step_by_action(st, node, restatement_doc_ids) ==
    IF ActionOf(node) = "REPLACE" THEN mat_replace(st, node)
    ELSE IF ActionOf(node) = "APPEND" THEN mat_append(st, node)
    ELSE IF ActionOf(node) = "ADD_NEW" THEN mat_add_new(st, node)
    ELSE IF ActionOf(node) = "DELETE" THEN mat_delete(st, node)
    ELSE IF ActionOf(node) = "NO_CHANGE" THEN mat_no_change(st, node)
    ELSE st

\* One pass of the loop body over `node`.
mat_step(st, node, restatement_doc_ids) ==
    IF node.doc_id \in restatement_doc_ids THEN mat_restatement(st, node)
    ELSE IF ActionOf(node) = "REPLACE" THEN mat_replace(st, node)
    ELSE IF ActionOf(node) = "APPEND" THEN mat_append(st, node)
    ELSE IF ActionOf(node) = "ADD_NEW" THEN mat_add_new(st, node)
    ELSE IF ActionOf(node) = "DELETE" THEN mat_delete(st, node)
    ELSE IF ActionOf(node) = "NO_CHANGE" THEN mat_no_change(st, node)
    ELSE st

\* The loop over the first k nodes of the ordered list.
RECURSIVE mat_fold(_, _, _)
mat_fold(nodes, k, restatement_doc_ids) ==
    IF k = 0 THEN FoldInit
    ELSE mat_step(mat_fold(nodes, k - 1, restatement_doc_ids), nodes[k], restatement_doc_ids)

\* The query of materialize_section: the key's nodes in processing order.
mat_nodes(nodes, family_id, canonical_section_id) ==
    ListByTsCreated(KeyNodes(nodes, family_id, canonical_section_id))

\* if is_deleted: both None; else the composed text and the base node.
mat_compose(st) ==
    IF st.is_deleted
    THEN [composed_text |-> NULL, current_node_id |-> NULL]
    ELSE [composed_text |-> ComposeText(st), current_node_id |-> st.base_node_id]

\* The fold of one key over the stored nodes.
mat_final(nodes, docs, family_id, canonical_section_id) ==
    LET q == mat_nodes(nodes, family_id, canonical_section_id)
    IN  mat_fold(q, Len(q), RestatementDocIds(KeyNodes(nodes, family_id, canonical_section_id), docs))

CurrentRows(rows, family_id, canonical_section_id) ==
    {r \in rows : r.family_id = family_id /\ r.canonical_section_id = canonical_section_id}

\* With no row for the key, a result with neither text nor node stores nothing.
mat_skips_insert(existing, out) ==
    existing = {} /\ IsNull(out.composed_text) /\ IsNull(out.current_node_id)

\* An upsert that would drop an existing row when the result is empty and
\* insert an empty row when there is none.
mat_upsert_toggling(rows, clk, st, family_id, canonical_section_id) ==
    LET existing == CurrentRows(rows, family_id, canonical_section_id)
        out == mat_compose(st)
        row == [family_id |-> family_id,
                canonical_section_id |-> canonical_section_id,
                current_node_id |-> out.current_node_id,
                current_effective_ts |-> st.base_effective_ts,
                composed_text |-> out.composed_text,
                updated_at |-> clk + 1]
    IN  IF existing # {} /\ IsNull(out.composed_text) /\ IsNull(out.current_node_id)
        THEN [rows |-> rows \ existing, clock |-> clk, value |-> NULL]
        ELSE [rows |-> (rows \ existing) \cup {row}, clock |-> clk + 1, value |-> Some(row)]

\* The upsert at the end of materialize_section, given the fold's final state.
mat_upsert(rows, clk, st, family_id, canonical_section_id) ==
    LET existing == CurrentRows(rows, family_id, canonical_section_id)
        out == mat_compose(st)
        row == [family_id |-> family_id,
                canonical_section_id |-> canonical_section_id,
                current_node_id |-> out.current_node_id,
                current_effective_ts |-> st.base_effective_ts,
                composed_text |-> out.composed_text,
                updated_at |-> clk + 1]
    IN  IF mat_skips_insert(existing, out)
        THEN [rows |-> rows, clock |-> clk, value |-> NULL]
        ELSE [rows |-> (rows \ existing) \cup {row}, clock |-> clk + 1, value |-> Some(row)]

\* materialize_section as a function of the tables: the new
\* family_section_current table, the clock after the call, the returned row.
materialize_section(rows, clk, nodes, docs, family_id, canonical_section_id) ==
    IF KeyNodes(nodes, family_id, canonical_section_id) = {}
    THEN [rows |-> rows \ CurrentRows(rows, family_id, canonical_section_id),
          clock |-> clk, value |-> NULL]
    ELSE mat_upsert(rows, clk, mat_final(nodes, docs, family_id, canonical_section_id),
                    family_id, canonical_section_id)

----------------------------------------------------------------------------
\* The read side (query/engine.py).  A QueryResult is a record with error
\* (NULL or Some(kind)), the resolved canonical_section_id and data (NULL or
\* Some(record)); a key that the code leaves out of data is NULL here.

\* A resolution that would fall back on any stored family.
resolve_family_defaulting(fams, family_id, party_a, party_b) ==
    IF ~IsNull(family_id) /\ Val(family_id) # <<>>
    THEN {f \in fams : f.family_id = Val(family_id)}
    ELSE fams

\* _resolve_family: the rows found (none or one) by id, else by party names.
resolve_family(fams, family_id, party_a, party_b) ==
    IF ~IsNull(family_id) /\ Val(family_id) # <<>>
    THEN {f \in fams : f.family_id = Val(family_id)}
    ELSE IF /\ ~IsNull(party_a) /\ Val(party_a) # <<>>
            /\ ~IsNull(party_b) /\ Val(party_b) # <<>>
    THEN {f \in fams : f.family_keys_hash = compute_family_keys_hash(Val(party_a), Val(party_b))}
    ELSE {}

Str_semantic == <<115, 101, 109, 97, 110, 116, 105, 99, 58>>
USCORE == 95

\* f"semantic:{section_query.lower().replace(' ', '_')}"
SemanticId(section_query) ==
    Str_semantic \o [i \in 1..Len(section_query) |->
                        IF LowerChar(section_query[i]) = SP THEN USCORE
                        ELSE LowerChar(section_query[i])]

\* The fuzzy step's candidate ids, an unordered DISTINCT result.
resolve_candidates(nodes, family_id, section_query) ==
    {n.canonical_section_id :
        n \in {x \in nodes : /\ x.family_id = family_id
                             /\ Contains(x.canonical_section_id, section_query)}}

\* _resolve_section_id: every id the call may return (candidates[0] of an
\* unordered result is any candidate).
resolve_section_id(nodes, family_id, section_query) ==
    IF KeyNodes(nodes, family_id, section_query) # {} THEN {section_query}
    ELSE IF KeyNodes(nodes, family_id, SemanticId(section_query)) # {}
    THEN {SemanticId(section_query)}
    ELSE IF resolve_candidates(nodes, family_id, section_query) # {}
    THEN resolve_candidates(nodes, family_id, section_query)
    ELSE {section_query}

\* A node query that would admit the nodes dated the day after the cutoff.
as_of_filter_day_late(nodes, family_id, canonical_section_id, as_of_date) ==
    {n \in KeyNodes(nodes, family_id, canonical_section_id) :
        ~IsNull(n.effective_ts) /\ Val(n.effective_ts) <= as_of_date + 1}

\* query_as_of's node query: the key's nodes with effective_ts <= as_of_date
\* (a NULL effective_ts never satisfies the comparison).
as_of_filter(nodes, family_id, canonical_section_id, as_of_date) ==
    {n \in KeyNodes(nodes, family_id, canonical_section_id) :
        ~IsNull(n.effective_ts) /\ Val(n.effective_ts) <= as_of_date}

as_of_restatement(st, node) ==
    [base_text |-> Some(node.clause_text), base_node_id |-> Some(node.node_id),
     base_effective_ts |-> node.effective_ts, is_deleted |-> FALSE, append_chain |-> <<>>]

as_of_replace(st, node) ==
    [base_text |-> Some(node.clause_text), base_node_id |-> Some(node.node_id),
     base_effective_ts |-> node.effective_ts, is_deleted |-> FALSE, append_chain |-> <<>>]

as_of_append(st, node) ==
    [st EXCEPT !.append_chain = Append(st.append_chain, node.clause_text),
               !.base_node_id = Some(node.node_id),
               !.base_effective_ts = node.effective_ts,
               !.is_deleted = FALSE]

as_of_add_new(st, node) ==
    [base_text |-> Some(node.clause_text), base_node_id |-> Some(node.node_id),
     base_effective_ts |-> node.effective_ts, is_deleted |-> FALSE, append_chain |-> <<>>]

as_of_delete(st, node) ==
    [base_text |-> NULL, base_node_id |-> NULL, base_effective_ts |-> node.effective_ts,
     is_deleted |-> TRUE, append_chain |-> <<>>]

\* A NO_CHANGE step that would also revive a deleted section, as the
\* materialization fold does.
as_of_no_change_reviving(st, node) ==
    IF IsNull(st.base_text)
    THEN [st EXCEPT !.base_text = Some(node.clause_text),
                    !.base_node_id = Some(node.node_id),
                    !.base_effective_ts = node.effective_ts,
                    !.is_deleted = FALSE]
    ELSE st

as_of_no_change(st, node) ==
    IF IsNull(st.base_text)
    THEN [st EXCEPT !.base_text = Some(node.clause_text),
                    !.base_node_id = Some(node.node_id),
                    !.base_effective_ts = node.effective_ts]
    ELSE st

as_of_step(st, node, restatement_doc_ids) ==
    IF node.doc_id \in restatement_doc_ids THEN as_of_restatement(st, node)
    ELSE IF ActionOf(node) = "REPLACE" THEN as_of_replace(st, node)
    ELSE IF ActionOf(node) = "APPEND" THEN as_of_append(st, node)
    ELSE IF ActionOf(node) = "ADD_NEW" THEN as_of_add_new(st, node)
    ELSE IF ActionOf(node) = "DELETE" THEN as_of_delete(st, node)
    ELSE IF ActionOf(node) = "NO_CHANGE" THEN as_of_no_change(st, node)
    ELSE st

RECURSIVE as_of_fold(_, _, _)
as_of_fold(nodes, k, restatement_doc_ids) ==
    IF k = 0 THEN FoldInit
    ELSE as_of_step(as_of_fold(nodes, k - 1, restatement_doc_ids), nodes[k], restatement_doc_ids)

NotFound(kind, canonical_section_id) ==
    [error |-> Some(kind), canonical_section_id |-> canonical_section_id, data |-> NULL]

\* The QueryResult built from the fold's final state.
as_of_result(st, canonical_section_id) ==
    IF st.is_deleted
    THEN [error |-> NULL, canonical_section_id |-> canonical_section_id,
          data |-> Some([status |-> "DELETED", composed_text |-> NULL,
                         current_node_id |-> NULL, effective_ts |-> NULL])]
    ELSE [error |-> NULL, canonical_section_id |-> canonical_section_id,
          data |-> Some([status |-> "ACTIVE", composed_text |-> ComposeText(st),
                         current_node_id |-> st.base_node_id,
                         effective_ts |-> st.base_effective_ts])]

\* query_as_of after resolution: every result the replay over the resolved
\* key may give (one per listing the ORDER BY may return).
as_of_replay(nodes, docs, fid, resolved_section, as_of_date) ==
    LET sel == as_of_filter(nodes, fid, resolved_section, as_of_date)
    IN  IF sel = {} THEN {NotFound("No data", resolved_section)}
        ELSE {as_of_result(as_of_fold(q, Len(q), RestatementDocIds(sel, docs)), resolved_section) :
                 q \in ListingsByTs(sel)}

\* query_as_of: every QueryResult the call may return.
query_as_of(fams, docs, nodes, section, as_of_date, family_id, party_a, party_b) ==
    LET found == resolve_family(fams, family_id, party_a, party_b)
    IN  IF found = {} THEN {NotFound("Family not found.", section)}
        ELSE UNION {as_of_replay(nodes, docs, (CHOOSE f \in found : TRUE).family_id, r, as_of_date) :
                       r \in resolve_section_id(nodes, (CHOOSE f \in found : TRUE).family_id, section)}

----------------------------------------------------------------------------
\* The write side: clause storage (ingestion/store.py).

\* A store that would insert the node without looking for its node_id.
store_clause_sql_inserting(nodes, enriched, doc_id, family_id, doc_effective_ts) ==
    nodes \cup
    {[node_id |-> compute_node_id(doc_id, enriched.chunk.page, enriched.chunk.span_start,
                                  enriched.chunk.span_end, enriched.canonical_section_id),
      doc_id |-> doc_id,
      family_id |-> family_id,
      canonical_section_id |-> enriched.canonical_section_id,
      change_action |-> enriched.change_action,
      effective_ts |-> IF ~IsNull(enriched.effective_ts) THEN enriched.effective_ts
                       ELSE doc_effective_ts,
      page |-> enriched.chunk.page,
      span_start |-> enriched.chunk.span_start,
      span_end |-> enriched.chunk.span_end,
      clause_text |-> enriched.chunk.text,
      created_at |-> Cardinality(nodes) + 1]}

\* store_clause_sql: session.merge on the primary key node_id.  A new row
\* takes the next created_at; an existing row keeps its created_at and takes
\* every column the call sets.
store_clause_sql(nodes, enriched, doc_id, family_id, doc_effective_ts) ==
    LET node_id == compute_node_id(doc_id, enriched.chunk.page, enriched.chunk.span_start,
                                   enriched.chunk.span_end, enriched.canonical_section_id)
        effective == IF ~IsNull(enriched.effective_ts) THEN enriched.effective_ts
                     ELSE doc_effective_ts
        old == {n \in nodes : n.node_id = node_id}
        node == [node_id |-> node_id,
                 doc_id |-> doc_id,
                 family_id |-> family_id,
                 canonical_section_id |-> enriched.canonical_section_id,
                 change_action |-> enriched.change_action,
                 effective_ts |-> effective,
                 page |-> enriched.chunk.page,
                 span_start |-> enriched.chunk.span_start,
                 span_end |-> enriched.chunk.span_end,
                 clause_text |-> enriched.chunk.text,
                 created_at |-> IF old = {} THEN Cardinality(nodes) + 1
                                ELSE (CHOOSE n \in old : TRUE).created_at]
    IN  (nodes \ old) \cup {node}

----------------------------------------------------------------------------
\* Families and document versions (ingestion/family.py).

Truthy(s) == ~IsNull(s) /\ Val(s) # <<>>

\* match_or_create_family: the family table after the call and the id returned.
match_or_create_family(fams, partyA_norm, partyB_norm) ==
    LET keys_hash == compute_family_keys_hash(partyA_norm, partyB_norm)
        family_id == compute_family_id(keys_hash)
        existing == {f \in fams : f.family_keys_hash = keys_hash}
        sorted_names == Sorted2(Lower(Strip(partyA_norm)), Lower(Strip(partyB_norm)))
        new_family == [family_id |-> family_id, family_keys_hash |-> keys_hash,
                       partyA_norm |-> sorted_names[1], partyB_norm |-> sorted_names[2]]
    IN  IF existing # {}
        THEN [families |-> fams, family_id |-> (CHOOSE f \in existing : TRUE).family_id]
        ELSE [families |-> fams \cup {new_family}, family_id |-> family_id]

FamilyDocs(docs, family_id) == {d \in docs : d.family_id = Some(family_id)}

MaxOf(S) == IF S = {} THEN 0 ELSE CHOOSE y \in S : \A z \in S : z <= y

\* A maximum that would be taken over the documents of every family.
max_ingest_all_families(docs, family_id) ==
    MaxOf({Val(d.doc_version_ingest) : d \in {x \in docs : ~IsNull(x.doc_version_ingest)}})

\* coalesce(max(doc_version_ingest), 0) over the family's documents.
max_ingest(docs, family_id) ==
    MaxOf({Val(d.doc_version_ingest) :
              d \in {x \in FamilyDocs(docs, family_id) : ~IsNull(x.doc_version_ingest)}})

RECURSIVE ListByCreated(_)
ListByCreated(S) ==
    IF S = {} THEN <<>>
    ELSE LET m == CHOOSE x \in S : \A y \in S \ {x} : x.created_at < y.created_at
         IN  <<m>> \o ListByCreated(S \ {m})

\* A ranking query that would order the family by creation alone.
family_docs_by_creation(docs, family_id) == ListByCreated(FamilyDocs(docs, family_id))

\* The family's documents by effective_ts ascending, nulls last, then created_at.
family_docs(docs, family_id) == ListByTsCreated(FamilyDocs(docs, family_id))

RankIn(listing, doc_id) == CHOOSE k \in 1..Len(listing) : listing[k].doc_id = doc_id

\* assign_doc_versions: the contract_document table after the call and the
\* pair returned.
assign_doc_versions(docs, doc_id, family_id, effective_ts) ==
    LET doc_version_ingest == max_ingest(docs, family_id) + 1
        stamped == {IF d.doc_id = doc_id
                    THEN [d EXCEPT !.family_id = Some(family_id),
                                   !.doc_version_ingest = Some(doc_version_ingest),
                                   !.effective_ts = effective_ts]
                    ELSE d : d \in docs}
        listing == family_docs(stamped, family_id)
        ranked == {IF d.family_id = Some(family_id)
                   THEN [d EXCEPT !.doc_version_timeline = Some(RankIn(listing, d.doc_id))]
                   ELSE d : d \in stamped}
    IN  [docs |-> ranked,
         doc_version_ingest |-> doc_version_ingest,
         doc_version_timeline |-> IF \E d \in FamilyDocs(stamped, family_id) : d.doc_id = doc_id
                                  THEN RankIn(listing, doc_id) ELSE 0]

----------------------------------------------------------------------------
\* The materialization scenario: one family whose four documents are
\* registered, clauses arriving one at a time in any order.

ChangeActions == {Some("REPLACE"), Some("APPEND"), Some("ADD_NEW"), Some("DELETE"),
                  Some("NO_CHANGE"), NULL}

FamilyAW == compute_family_id(compute_family_keys_hash(Str_acme, Str_widget))

DocId(file) == compute_doc_id(compute_file_hash(file))

DocRow(file, family_id, doc_type, ingest, timeline, effective_ts, created_at) ==
    [doc_id |-> DocId(file), file_hash |-> compute_file_hash(file),
     family_id |-> family_id, doc_type |-> doc_type,
     doc_version_ingest |-> ingest, doc_version_timeline |-> timeline,
     effective_ts |-> effective_ts, created_at |-> created_at]

FamilyRow(partyA_norm, partyB_norm) ==
    [family_id |-> compute_family_id(compute_family_keys_hash(partyA_norm, partyB_norm)),
     family_keys_hash |-> compute_family_keys_hash(partyA_norm, partyB_norm),
     partyA_norm |-> NormParts(partyA_norm, partyB_norm)[1],
     partyB_norm |-> NormParts(partyA_norm, partyB_norm)[2]]

\* A master, an amendment and a restatement effective the same day as the
\* amendment, and an addendum whose effective date did not resolve.
SeedDocs ==
    {DocRow("master.pdf", Some(FamilyAW), Some("master"), Some(1), Some(1), Some(1), 1),
     DocRow("amendment.pdf", Some(FamilyAW), Some("amendment"), Some(2), Some(2), Some(2), 2),
     DocRow("restatement.pdf", Some(FamilyAW), Some("restatement"), Some(3), Some(3), Some(2), 3),
     DocRow("addendum.pdf", Some(FamilyAW), Some("addendum"), Some(4), Some(4), NULL, 4)}

Chunk(text, page, span_start, span_end) ==
    [text |-> text, page |-> page, span_start |-> span_start, span_end |-> span_end]

\* The clause chunks segmentation yields: one span of section 5.3 per document.
\* build_clause_chunks never emits an empty text.
SeedChunks ==
    {[file |-> "master.pdf", section |-> Str_5_3, chunk |-> Chunk(<<"m">>, 3, 100, 200)],
     [file |-> "amendment.pdf", section |-> Str_5_3, chunk |-> Chunk(<<"a">>, 1, 50, 150)],
     [file |-> "restatement.pdf", section |-> Str_5_3, chunk |-> Chunk(<<"r">>, 1, 50, 150)],
     [file |-> "addendum.pdf", section |-> Str_5_3, chunk |-> Chunk(<<"d">>, 1, 50, 150)]}

Ret(op, section, as_of_date, value) ==
    [op |-> op, section |-> section, as_of_date |-> as_of_date, value |-> value]

Init ==
    /\ family = {FamilyRow(Str_acme, Str_widget)}
    /\ contract_document = SeedDocs
    /\ clause_node = {}
    /\ family_section_current = {}
    /\ clock = 0
    /\ session = NoSessions
    /\ ret = Ret("init", <<>>, 0, NULL)

\* _run_pipeline phases 6 and 7 for one enriched clause of a registered
\* document: store the clause, then materialize the section it touches.
StoreAndMaterialize(c, change_action, effective_ts) ==
    /\ clock < MaxClock
    /\ \E doc \in {d \in contract_document : d.doc_id = DocId(c.file)} :
       \E nodes \in {store_clause_sql(clause_node,
                                      [chunk |-> c.chunk, canonical_section_id |-> c.section,
                                       change_action |-> change_action,
                                       effective_ts |-> effective_ts],
                                      doc.doc_id, Val(doc.family_id), doc.effective_ts)} :
       \E m \in {materialize_section(family_section_current, clock, nodes, contract_document,
                                     Val(doc.family_id), c.section)} :
          /\ Cardinality(nodes) <= MaxNodes
          /\ clause_node' = nodes
          /\ family_section_current' = m.rows
          /\ clock' = m.clock
          /\ ret' = Ret("store_and_materialize", c.section, 0, m.value)
    /\ UNCHANGED <<session, family, contract_document>>

\* materialize_section called on its own for one key of the family.
MaterializeSection(family_id, canonical_section_id) ==
    /\ clock < MaxClock
    /\ \E m \in {materialize_section(family_section_current, clock, clause_node,
                                     contract_document, family_id, canonical_section_id)} :
          /\ family_section_current' = m.rows
          /\ clock' = m.clock
          /\ ret' = Ret("materialize_section", canonical_section_id, 0, m.value)
    /\ UNCHANGED <<session, family, contract_document, clause_node>>

\* query_as_of by family id.
QueryAsOf(family_id, section, as_of_date) ==
    /\ \E r \in query_as_of(family, contract_document, clause_node, section, as_of_date,
                            Some(family_id), NULL, NULL) :
           ret' = Ret("query_as_of", section, as_of_date, r)
    /\ UNCHANGED <<session, family, contract_document, clause_node, family_section_current, clock>>

Dates == 0..MaxDate

Next ==
    \/ \E c \in SeedChunks, a \in ChangeActions : StoreAndMaterialize(c, a, NULL)
    \/ MaterializeSection(FamilyAW, Str_5_3)
    \/ \E d \in Dates : QueryAsOf(FamilyAW, Str_5_3, d)

Spec == Init /\ [][Next]_vars

----------------------------------------------------------------------------
\* What the properties below speak about.

SectionIds == {Str_5, Str_5_3}

\* The keys (family_id, canonical_section_id) of the stored families.
Keys == {<<f.family_id, sid>> : f \in family, sid \in SectionIds}

Listing(key) == mat_nodes(clause_node, key[1], key[2])

Restated(key) == RestatementDocIds(KeyNodes(clause_node, key[1], key[2]), contract_document)

\* The fold's state after the first k nodes of the key.
FoldAt(key, k) == mat_fold(Listing(key), k, Restated(key))

FoldEnd(key) == FoldAt(key, Len(Listing(key)))

RowsOf(key) == CurrentRows(family_section_current, key[1], key[2])

\* The last call ran materialize_section on the key.
Materialized(key) ==
    /\ ret.op \in {"materialize_section", "store_and_materialize"}
    /\ ret.section = key[2]

\* Node k of the listing comes from a non-restatement document with this action.
Plain(key, k, action) ==
    /\ Listing(key)[k].doc_id \notin Restated(key)
    /\ ActionOf(Listing(key)[k]) = action

SansUpdatedAt(rows) == {[r EXCEPT !.updated_at = 0] : r \in rows}

----------------------------------------------------------------------------
\* C1 as stated: materialize_section run a second time on a key, with the
\* clause_node and contract_document tables unchanged since the first run,
\* leaves the key's family_section_current row identical in every column,
\* updated_at included.
C1_Original ==
    [][\A key \in Keys :
          (/\ Materialized(key)
           /\ ret'.op = "materialize_section" /\ ret'.section = key[2]
           /\ clause_node' = clause_node /\ contract_document' = contract_document)
          => CurrentRows(family_section_current', key[1], key[2]) = RowsOf(key)]_vars

\* C1 as amended: the second run leaves the row (or its absence) as the first
\* run left it in current_node_id, current_effective_ts and composed_text;
\* updated_at is the time of the run that wrote the row last.
C1_Amended ==
    [][\A key \in Keys :
          (/\ Materialized(key)
           /\ ret'.op = "materialize_section" /\ ret'.section = key[2]
           /\ clause_node' = clause_node /\ contract_document' = contract_document)
          => /\ SansUpdatedAt(CurrentRows(family_section_current', key[1], key[2]))
                  = SansUpdatedAt(RowsOf(key))
             /\ \A r \in CurrentRows(family_section_current', key[1], key[2]) :
                   r.updated_at = clock']_vars

\* A second run has rewritten a row that holds a composed text: in this
\* scenario every stored clause is materialized at once, so a run of
\* materialize_section on its own is always a re-run over unchanged nodes.
C1_Witness ==
    \E key \in Keys :
        /\ ret.op = "materialize_section" /\ ret.section = key[2]
        /\ \E r \in RowsOf(key) :
              /\ ~IsNull(r.composed_text)
              /\ r.updated_at = clock
              /\ clock >= 2

\* C4: a REPLACE node of a non-restatement document sets the baseline to its
\* text, empties the append chain and clears the deleted flag; when it is the
\* last node in processing order the materialized composed text is exactly
\* its text.
C4_ReplaceSupersedes ==
    \A key \in Keys :
        /\ \A k \in 1..Len(Listing(key)) :
              Plain(key, k, "REPLACE") =>
                  /\ FoldAt(key, k).base_text = Some(Listing(key)[k].clause_text)
                  /\ FoldAt(key, k).append_chain = <<>>
                  /\ ~FoldAt(key, k).is_deleted
        /\ (/\ Materialized(key)
            /\ Listing(key) # <<>>
            /\ ActionOf(Listing(key)[Len(Listing(key))]) = "REPLACE") =>
               /\ RowsOf(key) # {}
               /\ \A r \in RowsOf(key) :
                     r.composed_text = Some(Listing(key)[Len(Listing(key))].clause_text)

\* A REPLACE has been materialized last, after an earlier REPLACE or DELETE
\* and a pending APPEND.
C4_Witness ==
    \E key \in Keys :
        /\ Materialized(key)
        /\ Len(Listing(key)) = 3
        /\ Plain(key, 1, "REPLACE") \/ Plain(key, 1, "DELETE")
        /\ Plain(key, 2, "APPEND")
        /\ Plain(key, 3, "REPLACE")
        /\ \E r \in RowsOf(key) : r.composed_text = Some(Listing(key)[3].clause_text)

\* C6 as stated: after materialize_section on a key whose fold ends deleted a
\* row exists with composed_text and current_node_id NULL; after
\* materialize_section on a key without nodes no row exists; a row is absent
\* only for keys without nodes.
C6_Original ==
    \A key \in Keys :
        Materialized(key) =>
            /\ (Listing(key) # <<>> /\ FoldEnd(key).is_deleted) =>
                   /\ RowsOf(key) # {}
                   /\ \A r \in RowsOf(key) :
                         IsNull(r.composed_text) /\ IsNull(r.current_node_id)
            /\ Listing(key) = <<>> => RowsOf(key) = {}
            /\ RowsOf(key) = {} => Listing(key) = <<>>

\* C7: a node of a restatement document sets the baseline to its text,
\* empties the append chain and clears the deleted flag whatever its
\* change_action; when it is the last node the materialized row holds its text.
C7_RestatementResets ==
    \A key \in Keys :
        \A k \in 1..Len(Listing(key)) :
            Listing(key)[k].doc_id \in Restated(key) =>
                /\ FoldAt(key, k).base_text = Some(Listing(key)[k].clause_text)
                /\ FoldAt(key, k).base_node_id = Some(Listing(key)[k].node_id)
                /\ FoldAt(key, k).append_chain = <<>>
                /\ ~FoldAt(key, k).is_deleted
                /\ (k = Len(Listing(key)) /\ Materialized(key)) =>
                       /\ RowsOf(key) # {}
                       /\ \A r \in RowsOf(key) :
                             r.composed_text = Some(Listing(key)[k].clause_text)

\* A restatement node whose own change_action is DELETE has been materialized
\* after a baseline and a pending APPEND, and the row holds its text.
C7_Witness ==
    \E key \in Keys :
        /\ Materialized(key)
        /\ Len(Listing(key)) = 3
        /\ Plain(key, 2, "APPEND")
        /\ FoldAt(key, 2).append_chain # <<>>
        /\ Listing(key)[3].doc_id \in Restated(key)
        /\ ActionOf(Listing(key)[3]) = "DELETE"
        /\ \E r \in RowsOf(key) : r.composed_text = Some(Listing(key)[3].clause_text)

\* C3 as stated: when every node of the key has an effective_ts and the
\* cutoff is not earlier than the latest of them, query_as_of reports DELETED
\* exactly when the materialize fold ends deleted, and otherwise the
\* composed_text and current_node_id that the materialize fold computes.
C3_Original ==
    \A key \in Keys :
        (/\ ret.op = "query_as_of"
         /\ ret.value.canonical_section_id = key[2]
         /\ Listing(key) # <<>>
         /\ \A n \in KeyNodes(clause_node, key[1], key[2]) :
               ~IsNull(n.effective_ts) /\ Val(n.effective_ts) <= ret.as_of_date)
        => /\ ~IsNull(ret.value.data)
           /\ (Val(ret.value.data).status = "DELETED") <=> FoldEnd(key).is_deleted
           /\ ~FoldEnd(key).is_deleted =>
                 /\ Val(ret.value.data).composed_text = mat_compose(FoldEnd(key)).composed_text
                 /\ Val(ret.value.data).current_node_id = mat_compose(FoldEnd(key)).current_node_id

\* The step at position k assigns base_text: a restatement node, a REPLACE,
\* an ADD_NEW, or a NO_CHANGE that finds no baseline.
SetsBaseline(key, k) ==
    \/ Listing(key)[k].doc_id \in Restated(key)
    \/ ActionOf(Listing(key)[k]) \in {"REPLACE", "ADD_NEW"}
    \/ ActionOf(Listing(key)[k]) = "NO_CHANGE" /\ IsNull(FoldAt(key, k - 1).base_text)

\* The texts of the APPEND nodes at positions lo..hi, in processing order.
RECURSIVE AppendTexts(_, _, _)
AppendTexts(key, lo, hi) ==
    IF hi < lo THEN <<>>
    ELSE AppendTexts(key, lo, hi - 1) \o
         (IF Plain(key, hi, "APPEND") THEN <<Listing(key)[hi].clause_text>> ELSE <<>>)

\* b at position j is the last baseline-setting node and APPENDs follow it:
\* every later node is an APPEND or a NO_CHANGE of a non-restatement
\* document, and at least one is an APPEND.
AppendsFollow(key, j) ==
    /\ SetsBaseline(key, j)
    /\ \A i \in (j + 1)..Len(Listing(key)) : Plain(key, i, "APPEND") \/ Plain(key, i, "NO_CHANGE")
    /\ \E i \in (j + 1)..Len(Listing(key)) : Plain(key, i, "APPEND")

\* The position after the last DELETE before j (1 when there is none).
SinceDelete(key, j) ==
    IF \E i \in 1..(j - 1) : Plain(key, i, "DELETE")
    THEN 1 + CHOOSE i \in 1..(j - 1) :
                 Plain(key, i, "DELETE") /\ \A h \in (i + 1)..(j - 1) : ~Plain(key, h, "DELETE")
    ELSE 1

\* The APPENDs still pending when b at position j is processed and that b
\* keeps: none when b is a restatement node, a REPLACE, or an ADD_NEW or
\* NO_CHANGE over an existing baseline; otherwise the APPENDs since the last
\* DELETE.
PendingKept(key, j) ==
    IF \/ Listing(key)[j].doc_id \in Restated(key)
       \/ ActionOf(Listing(key)[j]) = "REPLACE"
       \/ \E i \in SinceDelete(key, j)..(j - 1) : ~Plain(key, i, "APPEND")
    THEN <<>>
    ELSE AppendTexts(key, SinceDelete(key, j), j - 1)

\* C5 as stated: when b is the last baseline-setting node and APPENDs a1..ak
\* follow it, the materialized composed text is b.text, a1.text, ..., ak.text
\* joined by the separator; an APPEND never changes the baseline text.
C5_Original ==
    \A key \in Keys :
        /\ \A k \in 1..Len(Listing(key)) :
              Plain(key, k, "APPEND") => FoldAt(key, k).base_text = FoldAt(key, k - 1).base_text
        /\ \A j \in 1..Len(Listing(key)) :
              (AppendsFollow(key, j) /\ Materialized(key)) =>
                  /\ RowsOf(key) # {}
                  /\ \A r \in RowsOf(key) :
                        r.composed_text =
                            Some(JoinParts(<<Listing(key)[j].clause_text>>
                                           \o AppendTexts(key, j + 1, Len(Listing(key)))))

\* C5 as amended: the composed text is b.text, then the texts of the APPENDs
\* that were pending when b was processed and that b kept (b being an ADD_NEW
\* or NO_CHANGE that found no baseline), then a1.text, ..., ak.text, joined by
\* the separator; an APPEND never changes the baseline text.
C5_Amended ==
    \A key \in Keys :
        /\ \A k \in 1..Len(Listing(key)) :
              Plain(key, k, "APPEND") => FoldAt(key, k).base_text = FoldAt(key, k - 1).base_text
        /\ \A j \in 1..Len(Listing(key)) :
              (AppendsFollow(key, j) /\ Materialized(key)) =>
                  /\ RowsOf(key) # {}
                  /\ \A r \in RowsOf(key) :
                        r.composed_text =
                            Some(JoinParts(<<Listing(key)[j].clause_text>>
                                           \o PendingKept(key, j)
                                           \o AppendTexts(key, j + 1, Len(Listing(key)))))

\* A baseline followed by two APPENDs has been materialized: the row holds
\* the three texts in processing order.
C5_Witness ==
    \E key \in Keys :
        /\ Materialized(key)
        /\ Len(Listing(key)) = 3
        /\ AppendsFollow(key, 1)
        /\ Plain(key, 2, "APPEND") /\ Plain(key, 3, "APPEND")
        /\ \E r \in RowsOf(key) :
              r.composed_text = Some(Listing(key)[1].clause_text \o Sep
                                     \o Listing(key)[2].clause_text \o Sep
                                     \o Listing(key)[3].clause_text)

----------------------------------------------------------------------------
\* The time-travel scenario: the same family and documents, with clauses of
\* sections 5.3 and 5, queried by either section string at any date.

AsOfChunks ==
    {[file |-> "master.pdf", section |-> Str_5_3, chunk |-> Chunk(<<"m">>, 3, 100, 200)],
     [file |-> "amendment.pdf", section |-> Str_5_3, chunk |-> Chunk(<<"a">>, 1, 50, 150)],
     [file |-> "amendment.pdf", section |-> Str_5, chunk |-> Chunk(<<"g">>, 1, 10, 40)]}

NextAsOf ==
    \/ \E c \in AsOfChunks, a \in ChangeActions : StoreAndMaterialize(c, a, NULL)
    \/ \E sid \in SectionIds, d \in Dates : QueryAsOf(FamilyAW, sid, d)

SpecAsOf == Init /\ [][NextAsOf]_vars

\* The clause_node table without the nodes dated after as_of_date.
NotAfter(nodes, as_of_date) ==
    {n \in nodes : IsNull(n.effective_ts) \/ Val(n.effective_ts) <= as_of_date}

\* The key's nodes are exactly a NO_CHANGE at t1 and a REPLACE at t2 > t1.
NoChangeThenReplace(key) ==
    /\ Len(Listing(key)) = 2
    /\ ActionOf(Listing(key)[1]) = "NO_CHANGE"
    /\ ActionOf(Listing(key)[2]) = "REPLACE"
    /\ ~IsNull(Listing(key)[1].effective_ts)
    /\ ~IsNull(Listing(key)[2].effective_ts)
    /\ Val(Listing(key)[1].effective_ts) < Val(Listing(key)[2].effective_ts)

\* On such a key query_as_of by the key's own id returns the first node's
\* text from t1 up to t2 and the second node's text from t2 on.
AsOfExample ==
    \A key \in Keys :
        (ret.op = "query_as_of" /\ ret.section = key[2] /\ NoChangeThenReplace(key)
         /\ ret.as_of_date >= Val(Listing(key)[1].effective_ts)) =>
            /\ ~IsNull(ret.value.data)
            /\ Val(ret.value.data).composed_text =
                  Some(IF ret.as_of_date < Val(Listing(key)[2].effective_ts)
                       THEN Listing(key)[1].clause_text
                       ELSE Listing(key)[2].clause_text)

----------------------------------------------------------------------------
\* The family scenario: an empty database; families are matched or created
\* and documents ingested one after another.

InitFamily ==
    /\ family = {}
    /\ contract_document = {}
    /\ clause_node = {}
    /\ family_section_current = {}
    /\ clock = 0
    /\ session = NoSessions
    /\ ret = Ret("init", <<>>, 0, NULL)

\* match_or_create_family called on its own.
MatchOrCreateFamily(partyA_norm, partyB_norm) ==
    /\ \E m \in {match_or_create_family(family, partyA_norm, partyB_norm)} :
          /\ family' = m.families
          /\ ret' = Ret("match_or_create_family", <<>>, 0,
                        [partyA_norm |-> partyA_norm, partyB_norm |-> partyB_norm,
                         family_id |-> m.family_id])
    /\ UNCHANGED <<session, contract_document, clause_node, family_section_current, clock>>

\* A lookup that would only find documents already placed in a family.
existing_document_in_family(docs, fhash) ==
    {d \in docs : d.file_hash = fhash /\ ~IsNull(d.family_id)}

\* The idempotency check: the stored document of this file_hash, if any.
existing_document(docs, fhash) == {d \in docs : d.file_hash = fhash}

IngestionResult(doc, skipped) ==
    [doc_id |-> doc.doc_id, family_id |-> doc.family_id, file_hash |-> doc.file_hash,
     doc_version_ingest |-> doc.doc_version_ingest,
     doc_version_timeline |-> doc.doc_version_timeline, skipped |-> skipped]

\* _run_pipeline without force, for a file that yields no clause chunks
\* (phases 4 to 7 then store and materialize nothing): the idempotency check,
\* the document row, its metadata, family matching and version assignment.
IngestDocument(pdf_bytes, partyA_norm, partyB_norm, effective_ts, doc_type) ==
    LET fhash == compute_file_hash(pdf_bytes)
        doc_id == compute_doc_id(fhash)
        existing == existing_document(contract_document, fhash)
        doc == [doc_id |-> doc_id, file_hash |-> fhash, family_id |-> NULL,
                doc_type |-> doc_type, doc_version_ingest |-> NULL,
                doc_version_timeline |-> NULL, effective_ts |-> effective_ts,
                created_at |-> Cardinality(contract_document) + 1]
    IN  IF existing # {}
        THEN /\ ret' = Ret("ingest_document", <<>>, 0,
                           IngestionResult(CHOOSE d \in existing : TRUE, TRUE))
             /\ UNCHANGED <<session, family, contract_document, clause_node,
                            family_section_current, clock>>
        ELSE /\ Cardinality(contract_document) < MaxDocs
             /\ IF Truthy(partyA_norm) /\ Truthy(partyB_norm)
                THEN \E m \in {match_or_create_family(family, Val(partyA_norm), Val(partyB_norm))} :
                     \E v \in {assign_doc_versions(contract_document \cup {doc}, doc_id,
                                                   m.family_id, effective_ts)} :
                        /\ family' = m.families
                        /\ contract_document' = v.docs
                        /\ ret' = Ret("ingest_document", <<>>, 0,
                                      IngestionResult([doc EXCEPT
                                          !.family_id = Some(m.family_id),
                                          !.doc_version_ingest = Some(v.doc_version_ingest),
                                          !.doc_version_timeline = Some(v.doc_version_timeline)],
                                          FALSE))
                ELSE /\ contract_document' = contract_document \cup {doc}
                     /\ ret' = Ret("ingest_document", <<>>, 0, IngestionResult(doc, FALSE))
                     /\ UNCHANGED family
             /\ UNCHANGED <<session, clause_node, family_section_current, clock>>

\* The files offered for ingestion, by content.
Files == {<<i>> : i \in 1..MaxDocs}

\* The party names metadata extraction may resolve for a file.
PartyPairs ==
    {<<Some(Str_acme), Some(Str_widget)>>, <<Some(Str_widget), Some(Str_acme)>>,
     <<Some(Str_Widget), Some(Str_Acme_sp)>>, <<Some(Str_acme), Some(Str_gadget)>>,
     <<Some(Str_acme), NULL>>}

EffectiveDates == {NULL} \cup {Some(d) : d \in 1..MaxDate}

NextFamily ==
    \/ \E pp \in {q \in PartyPairs : Truthy(q[1]) /\ Truthy(q[2])} :
          MatchOrCreateFamily(Val(pp[1]), Val(pp[2]))
    \/ \E f \in Files, pp \in PartyPairs, ts \in EffectiveDates :
          IngestDocument(f, pp[1], pp[2], ts, Some("amendment"))

SpecFamily == InitFamily /\ [][NextFamily]_vars

\* Document a precedes document b: effective_ts ascending, nulls last, the
\* earlier created first among equals.
DocBefore(a, b) ==
    \/ ~IsNull(a.effective_ts) /\ IsNull(b.effective_ts)
    \/ ~IsNull(a.effective_ts) /\ ~IsNull(b.effective_ts)
       /\ Val(a.effective_ts) < Val(b.effective_ts)
    \/ a.effective_ts = b.effective_ts /\ a.created_at < b.created_at

\* The 1-based position of d among the documents of its family.
Position(d) ==
    1 + Cardinality({e \in contract_document : e.family_id = d.family_id /\ DocBefore(e, d)})

\* An ingestion has just assigned versions to a document of family fid.
Assigned(fid) ==
    /\ ret.op = "ingest_document"
    /\ ~ret.value.skipped
    /\ ret.value.family_id = Some(fid)

\* C8: after assign_doc_versions returns for a document of a family, every
\* document of the family has version_timeline equal to its 1-based position
\* by effective_ts ascending, nulls last, ties by creation order; a document
\* arriving second with the earlier date gets 1 and the first one becomes 2.
C8_TimelineIsPosition ==
    \A f \in family :
        Assigned(f.family_id) =>
            /\ \A d \in FamilyDocs(contract_document, f.family_id) :
                  d.doc_version_timeline = Some(Position(d))
            /\ \A d1, d2 \in FamilyDocs(contract_document, f.family_id) :
                  (/\ Cardinality(FamilyDocs(contract_document, f.family_id)) = 2
                   /\ d1.created_at < d2.created_at
                   /\ ~IsNull(d1.effective_ts) /\ ~IsNull(d2.effective_ts)
                   /\ Val(d2.effective_ts) < Val(d1.effective_ts))
                  => /\ d2.doc_version_timeline = Some(1)
                     /\ d1.doc_version_timeline = Some(2)
                     /\ ret.value.doc_id = d2.doc_id
                     /\ ret.value.doc_version_timeline = Some(1)

\* The document that arrived second in a family of two carries the earlier
\* date: it has rank 1 and the first arrival has been rewritten to rank 2.
C8_Witness ==
    \E f \in family :
        /\ Assigned(f.family_id)
        /\ \E d1, d2 \in FamilyDocs(contract_document, f.family_id) :
              /\ Cardinality(FamilyDocs(contract_document, f.family_id)) = 2
              /\ d1.created_at < d2.created_at
              /\ ~IsNull(d1.effective_ts) /\ ~IsNull(d2.effective_ts)
              /\ Val(d2.effective_ts) < Val(d1.effective_ts)
              /\ d2.doc_version_timeline = Some(1)
              /\ d1.doc_version_timeline = Some(2)

\* C9: an ingestion that adds a document to a family gives it version_ingest
\* 1 + the maximum among the family's documents (1 when there is none) and
\* leaves the version_ingest of every other document unchanged; the
\* version_ingest values of a family are pairwise distinct and increase in
\* arrival order.
C9_IngestCounter ==
    [][/\ \A d \in {x \in contract_document' :
                       \A e \in contract_document : e.doc_id # x.doc_id} :
             ~IsNull(d.family_id) =>
                 /\ \A e \in FamilyDocs(contract_document, Val(d.family_id)) :
                       Val(e.doc_version_ingest) < Val(d.doc_version_ingest)
                 /\ \/ Val(d.doc_version_ingest) = 1
                    \/ \E e \in FamilyDocs(contract_document, Val(d.family_id)) :
                          Val(d.doc_version_ingest) = Val(e.doc_version_ingest) + 1
                 /\ (FamilyDocs(contract_document, Val(d.family_id)) = {}) =>
                       Val(d.doc_version_ingest) = 1
       /\ \A e \in contract_document :
             \E d \in contract_document' :
                 d.doc_id = e.doc_id /\ d.doc_version_ingest = e.doc_version_ingest
       /\ \A d, e \in contract_document' :
             (d.family_id = e.family_id /\ ~IsNull(d.family_id) /\ d.created_at < e.created_at)
             => Val(d.doc_version_ingest) < Val(e.doc_version_ingest)]_vars

\* A family holds three documents and the last arrival, dated before the
\* others, has version_ingest 3.
C9_Witness ==
    \E f \in family :
        /\ Assigned(f.family_id)
        /\ Cardinality(FamilyDocs(contract_document, f.family_id)) = 3
        /\ ret.value.doc_version_ingest = Some(3)
        /\ ret.value.doc_version_timeline = Some(1)

\* The Family rows that stand for the two names, in either order.
FamilyOf(fams, a, b) ==
    {f \in fams : <<f.partyA_norm, f.partyB_norm>> = Sorted2(Lower(Strip(a)), Lower(Strip(b)))}

\* C10: a call of match_or_create_family returns the id of the one Family row
\* of its two names; the first call for the names creates exactly that row,
\* a later one creates none and changes none; after any call, a call with
\* the names of any existing row, in either order, returns that row's id and
\* leaves the table unchanged.
C10_FamilyIdempotent ==
    [][/\ ret'.op = "match_or_create_family" =>
             LET a == ret'.value.partyA_norm
                 b == ret'.value.partyB_norm
             IN  /\ Cardinality(FamilyOf(family', a, b)) = 1
                 /\ \A f \in FamilyOf(family', a, b) : f.family_id = ret'.value.family_id
                 /\ FamilyOf(family, a, b) # {} => family' = family
                 /\ FamilyOf(family, a, b) = {} =>
                       /\ family \subseteq family'
                       /\ family' \ family = FamilyOf(family', a, b)
                 /\ \A pp \in {q \in PartyPairs : Truthy(q[1]) /\ Truthy(q[2])} :
                       \A f \in FamilyOf(family', Val(pp[1]), Val(pp[2])) :
                           /\ match_or_create_family(family', Val(pp[1]), Val(pp[2]))
                                 = [families |-> family', family_id |-> f.family_id]
                           /\ match_or_create_family(family', Val(pp[2]), Val(pp[1]))
                                 = [families |-> family', family_id |-> f.family_id]]_vars

\* A call with the names swapped and respelt has returned the id of the row an
\* earlier call created, and two families exist.
C10_Witness ==
    /\ ret.op = "match_or_create_family"
    /\ ret.value.partyA_norm = Str_Widget
    /\ ret.value.partyB_norm = Str_Acme_sp
    /\ ret.value.family_id = FamilyAW
    /\ Cardinality(family) = 2
    /\ \E f \in family : f.family_id = FamilyAW /\ f.partyA_norm = Str_acme

----------------------------------------------------------------------------
\* The hashing scenario: compute_family_keys_hash applied to party names
\* drawn from short strings over letters of both cases and whitespace.

TAB == 9

NameChars == {97, 65, 98, SP, TAB}

RECURSIVE Strings(_)
Strings(n) ==
    IF n = 0 THEN {<<>>}
    ELSE Strings(n - 1) \cup {Append(s, c) : s \in Strings(n - 1), c \in NameChars}

Names == Strings(MaxNameLen)

\* The two names handed to the function.
InitHash ==
    /\ family = {}
    /\ contract_document = {}
    /\ clause_node = {}
    /\ family_section_current = {}
    /\ clock = 0
    /\ session = NoSessions
    /\ \E a \in Names, b \in Names :
          ret = Ret("input", <<>>, 0, [partyA_norm |-> a, partyB_norm |-> b])

ComputeFamilyKeysHash ==
    /\ ret.op = "input"
    /\ ret' = Ret("compute_family_keys_hash", <<>>, 0,
                  [partyA_norm |-> ret.value.partyA_norm,
                   partyB_norm |-> ret.value.partyB_norm,
                   family_keys_hash |-> compute_family_keys_hash(ret.value.partyA_norm,
                                                                 ret.value.partyB_norm)])
    /\ UNCHANGED <<session, family, contract_document, clause_node, family_section_current, clock>>

NextHash == ComputeFamilyKeysHash

SpecHash == InitHash /\ [][NextHash]_vars

\* Two code points are the same letter up to case.
SameLetter(c, d) ==
    \/ c = d
    \/ c \in 65..90 /\ d = c + 32
    \/ d \in 65..90 /\ c = d + 32

\* The positions of s that are not leading or trailing whitespace.
CoreLo(s) == IF \E i \in 1..Len(s) : s[i] \notin Whitespace
             THEN CHOOSE i \in 1..Len(s) :
                      s[i] \notin Whitespace /\ \A j \in 1..(i - 1) : s[j] \in Whitespace
             ELSE 1

CoreHi(s) == IF \E i \in 1..Len(s) : s[i] \notin Whitespace
             THEN CHOOSE i \in 1..Len(s) :
                      s[i] \notin Whitespace /\ \A j \in (i + 1)..Len(s) : s[j] \in Whitespace
             ELSE 0

\* t differs from s only in letter case or in leading/trailing whitespace.
Variant(s, t) ==
    /\ CoreHi(s) - CoreLo(s) = CoreHi(t) - CoreLo(t)
    /\ \A k \in 0..(CoreHi(s) - CoreLo(s)) : SameLetter(s[CoreLo(s) + k], t[CoreLo(t) + k])

\* C11: compute_family_keys_hash(A, B) = compute_family_keys_hash(B', A') for
\* all names A, B and all variants A' of A and B' of B that differ only in
\* letter case or in leading/trailing whitespace.
C11_KeysHashSymmetric ==
    ret.op = "compute_family_keys_hash" =>
        \A a2 \in {x \in Names : Variant(ret.value.partyA_norm, x)} :
            \A b2 \in {x \in Names : Variant(ret.value.partyB_norm, x)} :
                compute_family_keys_hash(b2, a2) = ret.value.family_keys_hash

\* The hash of ("b ", "A") has been computed: the swapped, respelt pair
\* ("a", " B") is among its variants and the two names sort the other way
\* round from how they were given.
C11_Witness ==
    /\ ret.op = "compute_family_keys_hash"
    /\ ret.value.partyA_norm = <<98, SP>>
    /\ ret.value.partyB_norm = <<65>>
    /\ Variant(ret.value.partyA_norm, <<TAB, 98>>)
    /\ Variant(ret.value.partyB_norm, <<97>>)
    /\ ret.value.family_keys_hash = Sha256(<<97, BAR, 98>>)

----------------------------------------------------------------------------
\* The re-versioning scenario: documents of one family are ingested and
\* assign_doc_versions is called again for documents already versioned, as a
\* metadata correction or a forced re-ingestion does.

\* assign_doc_versions called on its own for a stored document.
AssignDocVersions(doc_id, family_id, effective_ts) ==
    /\ max_ingest(contract_document, family_id) < MaxIngest
    /\ \E v \in {assign_doc_versions(contract_document, doc_id, family_id, effective_ts)} :
          /\ contract_document' = v.docs
          /\ ret' = Ret("assign_doc_versions", <<>>, 0,
                        [doc_id |-> doc_id, family_id |-> family_id,
                         effective_ts |-> effective_ts,
                         doc_version_ingest |-> v.doc_version_ingest,
                         doc_version_timeline |-> v.doc_version_timeline])
    /\ UNCHANGED <<session, family, clause_node, family_section_current, clock>>

NextReassign ==
    \/ \E f \in Files, ts \in EffectiveDates :
          IngestDocument(f, Some(Str_acme), Some(Str_widget), ts, Some("amendment"))
    \/ \E d \in contract_document, ts \in EffectiveDates :
          AssignDocVersions(d.doc_id, FamilyAW, ts)

SpecReassign == InitFamily /\ [][NextReassign]_vars

\* C12 as stated: a second call of assign_doc_versions for the same doc_id,
\* family_id and effective_ts, with nothing else done in between, returns
\* the pair the first call returned and leaves every document row unchanged.
C12_Original ==
    [][(/\ ret.op = "assign_doc_versions"
        /\ ret'.op = "assign_doc_versions"
        /\ ret'.value.doc_id = ret.value.doc_id
        /\ ret'.value.family_id = ret.value.family_id
        /\ ret'.value.effective_ts = ret.value.effective_ts)
       => /\ ret'.value.doc_version_ingest = ret.value.doc_version_ingest
          /\ ret'.value.doc_version_timeline = ret.value.doc_version_timeline
          /\ contract_document' = contract_document]_vars

----------------------------------------------------------------------------
\* Materialization batches (materialization/current_state.py) and the rebuild
\* scenario: clauses of sections 5.3 and 5 are stored and materialized, and the
\* family's rows are dropped and rebuilt with materialize_family.

\* The SELECT DISTINCT canonical_section_id of the family's nodes.
FamilySectionIds(nodes, family_id) ==
    {n.canonical_section_id : n \in {x \in nodes : x.family_id = family_id}}

\* Every order in which an unordered query may list the members of S.
RECURSIVE Orderings(_)
Orderings(S) ==
    IF S = {} THEN {<<>>}
    ELSE UNION {{<<x>> \o q : q \in Orderings(S \ {x})} : x \in S}

\* The loop `for sid in sids: materialize_section(...); count += 1`.  A
\* section in `failing` is one whose materialize_section raises: the loop has
\* no handler, so the exception leaves it there.
RECURSIVE materialize_sections(_, _, _, _, _, _, _)
materialize_sections(rows, clk, nodes, docs, family_id, sids, failing) ==
    IF sids = <<>> THEN [rows |-> rows, clock |-> clk, count |-> 0, raised |-> FALSE]
    ELSE IF Head(sids) \in failing
    THEN [rows |-> rows, clock |-> clk, count |-> 0, raised |-> TRUE]
    ELSE LET m == materialize_section(rows, clk, nodes, docs, family_id, Head(sids))
             rest == materialize_sections(m.rows, m.clock, nodes, docs, family_id,
                                          Tail(sids), failing)
         IN  [rest EXCEPT !.count = IF rest.raised THEN 0 ELSE rest.count + 1]

\* materialize_family: every outcome, one per order of the DISTINCT query.
materialize_family(rows, clk, nodes, docs, family_id, failing) ==
    {materialize_sections(rows, clk, nodes, docs, family_id, q, failing) :
        q \in Orderings(FamilySectionIds(nodes, family_id))}

materialize_affected_sections(rows, clk, nodes, docs, family_id, affected_section_ids, failing) ==
    materialize_sections(rows, clk, nodes, docs, family_id, affected_section_ids, failing)

FamilyRows(rows, family_id) == {r \in rows : r.family_id = family_id}

\* Every FamilySectionCurrent row of the family is deleted and
\* materialize_family is run.
DropAndRebuild(family_id) ==
    /\ \E m \in materialize_family(family_section_current
                                      \ FamilyRows(family_section_current, family_id),
                                   clock, clause_node, contract_document, family_id, {}) :
          /\ m.clock <= MaxClock
          /\ family_section_current' = m.rows
          /\ clock' = m.clock
          /\ ret' = Ret("materialize_family", <<>>, 0, m.count)
    /\ UNCHANGED <<session, family, contract_document, clause_node>>

NextRebuild ==
    \/ \E c \in AsOfChunks, a \in ChangeActions : StoreAndMaterialize(c, a, NULL)
    \/ DropAndRebuild(FamilyAW)

SpecRebuild == Init /\ [][NextRebuild]_vars

\* C13 as stated: deleting every FamilySectionCurrent row of a family and
\* running materialize_family yields rows for the same keys with the same
\* current_node_id, current_effective_ts and composed_text as before.
C13_Original ==
    [][ret'.op = "materialize_family" =>
          SansUpdatedAt(FamilyRows(family_section_current', FamilyAW))
              = SansUpdatedAt(FamilyRows(family_section_current, FamilyAW))]_vars

----------------------------------------------------------------------------
\* Ingestion step by step, in database sessions that run side by side
\* (ingestion/pipeline.py, ingestion/family.py).  The tables hold the
\* committed rows.  A flush sends a session's rows to the store inside its
\* open transaction: the session reads them back, the other sessions do not
\* see them before the commit (read committed), and an INSERT or UPDATE of a
\* row another open transaction has written waits for that transaction.
\* The code takes no lock of its own around any of these steps.

\* What session s reads: the committed rows under its own flushed rows.
DocView(s) ==
    {d \in contract_document :
        \A p \in session[s].pending_docs : p.doc_id # d.doc_id}
    \cup session[s].pending_docs

FamilyView(s) == family \cup session[s].pending_family

\* Every document row written so far, committed or not.
AllDocIds ==
    {d.doc_id : d \in contract_document}
    \cup UNION {{d.doc_id : d \in session[s].pending_docs} : s \in Sessions}

\* The document row session s is ingesting, as s reads it.
OwnDoc(s) == CHOOSE d \in DocView(s) : d.doc_id = Val(session[s].doc_id)

\* Replace, in a set of rows, the rows of the same doc_id by those of `rows`.
Override(base, rows) ==
    {d \in base : \A p \in rows : p.doc_id # d.doc_id} \cup rows

\* The exception handler of ingest_document and the caller's next use of the
\* session: an own session rolls back and closes; a shared session is left
\* as it is.  A failed flush has already rolled the transaction back and
\* leaves a shared session unusable until a rollback() nobody calls.
AfterException(s, flush_failed) ==
    IF session[s].own_session THEN Idle
    ELSE IF flush_failed
    THEN [Idle EXCEPT !.pc = "inactive", !.own_session = FALSE]
    ELSE [Idle EXCEPT !.own_session = FALSE,
                      !.pending_docs = session[s].pending_docs,
                      !.pending_family = session[s].pending_family]

\* ingest_document up to the flushed document row (phases 0 to 2): the
\* idempotency check, the row, its metadata.  With own_session the call
\* opens a fresh session; otherwise it runs in the caller's session and
\* finds there whatever earlier calls left flushed.  created_at is the
\* clock read when the row is built.
BeginIngest(s, pdf_bytes, effective_ts, own_session) ==
    LET fhash == compute_file_hash(pdf_bytes)
        doc_id == compute_doc_id(fhash)
        view == IF own_session THEN contract_document ELSE DocView(s)
        existing == {d \in view : d.file_hash = fhash}
        doc == [doc_id |-> doc_id, file_hash |-> fhash, family_id |-> NULL,
                doc_type |-> Some("amendment"), doc_version_ingest |-> NULL,
                doc_version_timeline |-> NULL, effective_ts |-> effective_ts,
                created_at |-> clock + 1]
    IN  /\ session[s].pc = "idle"
            /\ IF existing # {}
           THEN /\ ret' = Ret("ingest_document", <<>>, 0,
                              [session |-> s, error |-> NULL,
                               result |-> Some(IngestionResult(CHOOSE d \in existing : TRUE, TRUE))])
                /\ UNCHANGED <<session, clock>>
           ELSE /\ doc_id \notin AllDocIds
                /\ clock < MaxClock
                /\ clock' = clock + 1
                /\ session' = [session EXCEPT ![s] =
                      [pc |-> "doc", own_session |-> own_session,
                       doc_id |-> Some(doc_id), family_id |-> NULL, found |-> FALSE,
                       pending_docs |-> IF own_session THEN {doc}
                                        ELSE session[s].pending_docs \cup {doc},
                       pending_family |-> IF own_session THEN {}
                                          ELSE session[s].pending_family]]
                /\ ret' = Ret("flush_document", <<>>, 0, [session |-> s])
        /\ UNCHANGED <<family, contract_document, clause_node, family_section_current>>

\* match_or_create_family, the lookup by family_keys_hash.
FamilyLookup(s, partyA_norm, partyB_norm) ==
    LET keys_hash == compute_family_keys_hash(partyA_norm, partyB_norm)
        existing == {f \in FamilyView(s) : f.family_keys_hash = keys_hash}
    IN  /\ session[s].pc = "doc"
        /\ IF existing # {}
           THEN session' = [session EXCEPT
                    ![s].pc = "family", ![s].found = TRUE,
                    ![s].family_id = Some((CHOOSE f \in existing : TRUE).family_id)]
           ELSE session' = [session EXCEPT ![s].pc = "lookup", ![s].found = FALSE]
        /\ ret' = Ret("family_lookup", <<>>, 0, [session |-> s, found |-> existing # {}])
        /\ UNCHANGED <<family, contract_document, clause_node, family_section_current, clock>>

\* match_or_create_family, session.add(family) and session.flush() after a
\* lookup that found nothing.  The INSERT waits while another open
\* transaction holds a row of the same family_id; once a row of that id is
\* committed the INSERT violates the primary key and the unique
\* family_keys_hash, and the IntegrityError leaves match_or_create_family
\* and _run_pipeline uncaught.
FamilyCreate(s, partyA_norm, partyB_norm) ==
    LET new_family == FamilyRow(partyA_norm, partyB_norm)
    IN  /\ session[s].pc = "lookup"
        /\ \A o \in Sessions \ {s} :
              \A f \in session[o].pending_family : f.family_id # new_family.family_id
        /\ IF \E f \in family : f.family_id = new_family.family_id
                                \/ f.family_keys_hash = new_family.family_keys_hash
           THEN /\ session' = [session EXCEPT ![s] = AfterException(s, TRUE)]
                /\ ret' = Ret("ingest_document", <<>>, 0,
                              [session |-> s, error |-> Some("IntegrityError"),
                               result |-> NULL])
           ELSE /\ session' = [session EXCEPT
                      ![s].pc = "family",
                      ![s].family_id = Some(new_family.family_id),
                      ![s].pending_family = session[s].pending_family \cup {new_family}]
                /\ ret' = Ret("family_create", <<>>, 0,
                              [session |-> s, family_id |-> new_family.family_id])
        /\ UNCHANGED <<family, contract_document, clause_node, family_section_current, clock>>

\* assign_doc_versions, the max query and the stamp of the document.
StampVersions(s) ==
    LET family_id == Val(session[s].family_id)
        doc_version_ingest == max_ingest(DocView(s), family_id) + 1
        stamped == [OwnDoc(s) EXCEPT !.family_id = Some(family_id),
                                     !.doc_version_ingest = Some(doc_version_ingest)]
    IN  /\ session[s].pc = "family"
        /\ session' = [session EXCEPT
              ![s].pc = "stamped",
              ![s].pending_docs = Override(session[s].pending_docs, {stamped})]
        /\ ret' = Ret("stamp_versions", <<>>, 0,
                      [session |-> s, doc_version_ingest |-> doc_version_ingest])
        /\ UNCHANGED <<family, contract_document, clause_node, family_section_current, clock>>

\* assign_doc_versions, the listing of the family and the re-rank of every
\* document in it.  Only rows whose rank changes are written, and a write
\* waits for a row another open transaction has written.
RerankTimeline(s) ==
    LET family_id == Val(session[s].family_id)
        listing == family_docs(DocView(s), family_id)
        ranked == {[d EXCEPT !.doc_version_timeline = Some(RankIn(listing, d.doc_id))] :
                      d \in FamilyDocs(DocView(s), family_id)}
        dirty == {d \in ranked : d \notin contract_document}
    IN  /\ session[s].pc = "stamped"
        /\ \A o \in Sessions \ {s} :
              \A p \in session[o].pending_docs : \A d \in dirty : p.doc_id # d.doc_id
        /\ session' = [session EXCEPT
              ![s].pc = "ranked",
              ![s].pending_docs = Override(session[s].pending_docs, dirty)]
        /\ ret' = Ret("rerank_timeline", <<>>, 0,
                      [session |-> s,
                       doc_version_timeline |-> RankIn(listing, Val(session[s].doc_id))])
        /\ UNCHANGED <<family, contract_document, clause_node, family_section_current, clock>>

\* session.commit() at the end of _run_pipeline: everything the session has
\* flushed becomes the committed state.
Commit(s) ==
    /\ session[s].pc = "ranked"
    /\ contract_document' = Override(contract_document, session[s].pending_docs)
    /\ family' = family \cup session[s].pending_family
    /\ session' = [session EXCEPT ![s] = [Idle EXCEPT !.own_session = session[s].own_session]]
    /\ ret' = Ret("ingest_document", <<>>, 0,
                  [session |-> s, error |-> NULL,
                   result |-> Some(IngestionResult(OwnDoc(s), FALSE))])
    /\ UNCHANGED <<clause_node, family_section_current, clock>>

\* Any exception raised by a phase that runs after the document row is
\* flushed (parsing, metadata extraction, enrichment, storage,
\* materialization).
Fail(s) ==
    /\ session[s].pc \in {"doc", "family", "stamped", "ranked"}
    /\ session' = [session EXCEPT ![s] = AfterException(s, FALSE)]
    /\ ret' = Ret("ingest_document", <<>>, 0,
                  [session |-> s, error |-> Some("Exception"), result |-> NULL])
    /\ UNCHANGED <<family, contract_document, clause_node, family_section_current, clock>>

NextSessions ==
    \E s \in Sessions :
        \/ \E f \in Files, ts \in EffectiveDates : BeginIngest(s, f, ts, s \in OwnSessions)
        \/ FamilyLookup(s, Str_acme, Str_widget)
        \/ FamilyCreate(s, Str_widget, Str_acme)
        \/ StampVersions(s)
        \/ RerankTimeline(s)
        \/ Commit(s)
        \/ Fail(s)

SpecSessions == InitFamily /\ [][NextSessions]_vars

\* No ingestion is under way in any session.
Quiescent == \A s \in Sessions : session[s].pc \in {"idle", "inactive"}

\* C14 as stated: once concurrent ingestions into one family have committed,
\* no two documents of the family share a doc_version_ingest or a
\* doc_version_timeline, and the timeline ranks are exactly 1..n in
\* effective-date order.
C14_Original ==
    Quiescent =>
        \A fid \in {f.family_id : f \in family} :
            LET D == FamilyDocs(contract_document, fid)
            IN  /\ \A a \in D, b \in D :
                      a # b => /\ a.doc_version_ingest # b.doc_version_ingest
                               /\ a.doc_version_timeline # b.doc_version_timeline
                /\ {d.doc_version_timeline : d \in D} = {Some(k) : k \in 1..Cardinality(D)}
                /\ \A a \in D, b \in D :
                      DocBefore(a, b) /\ a.effective_ts # b.effective_ts
                          => Val(a.doc_version_timeline) < Val(b.doc_version_timeline)

\* C15 as stated: when two concurrent calls of match_or_create_family for the
\* same party pair both find no existing row, both return the family_id
\* without error and exactly one Family row exists for the pair.
C15_Original ==
    /\ ~(ret.op = "ingest_document" /\ ret.value.error = Some("IntegrityError"))
    /\ \A f \in family, g \in family : f.family_keys_hash = g.family_keys_hash => f = g

\* C16 as stated: ingestion writes are atomic per document.  A document row
\* becomes committed only by the commit of its own ingestion, so nothing of
\* an ingestion that failed after writing its row is ever committed, in an
\* own session or in a shared one.
C16_Original ==
    [][\A d \in contract_document' :
          d.doc_id \notin {e.doc_id : e \in contract_document}
              => /\ ret'.op = "ingest_document"
                 /\ ret'.value.result # NULL
                 /\ Val(ret'.value.result).doc_id = d.doc_id]_vars

----------------------------------------------------------------------------
\* Materialization in batches with a section that raises.  Clauses are
\* stored (phase 6) and the sections are materialized afterwards in one call
\* (phase 7, or the materialize command).  The actions give the state of the
\* session when the call returns or raises; what the caller then does with
\* the transaction cannot bring back a section the loop never reached.

\* store_clause_sql for one enriched clause of a registered document.
StoreClause(c, change_action) ==
    /\ \E doc \in {d \in contract_document : d.doc_id = DocId(c.file)} :
       \E nodes \in {store_clause_sql(clause_node,
                             [chunk |-> c.chunk, canonical_section_id |-> c.section,
                              change_action |-> change_action, effective_ts |-> NULL],
                             doc.doc_id, Val(doc.family_id), doc.effective_ts)} :
          /\ clause_node' = nodes
          /\ ret' = Ret("store_clause_sql", c.section, 0,
                        CHOOSE n \in nodes :
                            n.node_id = compute_node_id(doc.doc_id, c.chunk.page,
                                            c.chunk.span_start, c.chunk.span_end, c.section))
    /\ UNCHANGED <<session, family, contract_document, family_section_current, clock>>

\* The sets of sections whose materialize_section may raise: none or one.
Failings == {{}} \cup {{sid} : sid \in {Str_5, Str_5_3}}

\* The lists pipeline phase 7 may pass: list({...}) of the sections a
\* document touches, in the arbitrary order of the set.
AffectedLists == UNION {Orderings(S) : S \in (SUBSET {Str_5, Str_5_3}) \ {{}}}

BatchResult(sids, failing, m) ==
    [sections |-> {sids[k] : k \in 1..Len(sids)}, failing |-> failing,
     error |-> IF m.raised THEN Some("Exception") ELSE NULL,
     count |-> IF m.raised THEN NULL ELSE Some(m.count)]

MaterializeAffectedSections(family_id, affected_section_ids, failing) ==
    /\ \E m \in {materialize_affected_sections(family_section_current, clock, clause_node,
                                               contract_document, family_id,
                                               affected_section_ids, failing)} :
          /\ m.clock <= MaxClock
          /\ family_section_current' = m.rows
          /\ clock' = m.clock
          /\ ret' = Ret("materialize_affected_sections", <<>>, 0,
                        BatchResult(affected_section_ids, failing, m))
    /\ UNCHANGED <<session, family, contract_document, clause_node>>

MaterializeFamily(family_id, failing) ==
    /\ \E q \in Orderings(FamilySectionIds(clause_node, family_id)) :
       \E m \in {materialize_sections(family_section_current, clock, clause_node,
                                      contract_document, family_id, q, failing)} :
          /\ m.clock <= MaxClock
          /\ family_section_current' = m.rows
          /\ clock' = m.clock
          /\ ret' = Ret("materialize_family", <<>>, 0, BatchResult(q, failing, m))
    /\ UNCHANGED <<session, family, contract_document, clause_node>>

\* The clauses of the amendment, one in each of two sections, and the clause
\* of the restatement that has the page and span of the amendment's, each
\* as a replacement or a deletion.
BatchChunks ==
    {c \in AsOfChunks : c.file = "amendment.pdf"}
    \cup {c \in SeedChunks : c.file = "restatement.pdf"}

BatchActions == {Some("REPLACE"), Some("DELETE")}

NextBatch ==
    \/ \E c \in BatchChunks, a \in BatchActions : StoreClause(c, a)
    \/ \E q \in AffectedLists, failing \in Failings :
          MaterializeAffectedSections(FamilyAW, q, failing)
    \/ \E failing \in Failings : MaterializeFamily(FamilyAW, failing)

SpecBatch == Init /\ [][NextBatch]_vars

\* C17 as stated: when materialize_section fails for one section of a batch
\* run by materialize_affected_sections or materialize_family, every other
\* section of the batch is still materialized: its row is what
\* materialize_section makes of it.
C17_Original ==
    [][ret'.op \in {"materialize_affected_sections", "materialize_family"} =>
          \A sid \in ret'.value.sections \ ret'.value.failing :
              SansUpdatedAt(CurrentRows(family_section_current', FamilyAW, sid))
                  = SansUpdatedAt(CurrentRows(
                        materialize_section(family_section_current, clock, clause_node,
                                            contract_document, FamilyAW, sid).rows,
                        FamilyAW, sid))]_vars

----------------------------------------------------------------------------
\* C18: ingesting, without force, a file whose file_hash is already stored
\* returns a skipped result that carries the stored document's family and
\* version ranks and changes no row of any table; and at most one
\* ContractDocument row exists per file_hash.
C18_ReingestSkips ==
    [][/\ \A d \in contract_document', e \in contract_document' :
             d.file_hash = e.file_hash => d = e
       /\ ret'.op = "ingest_document" =>
             \A d \in contract_document :
                 d.file_hash = ret'.value.file_hash =>
                     /\ ret'.value.skipped
                     /\ ret'.value.doc_id = d.doc_id
                     /\ ret'.value.family_id = d.family_id
                     /\ ret'.value.doc_version_ingest = d.doc_version_ingest
                     /\ ret'.value.doc_version_timeline = d.doc_version_timeline
                     /\ UNCHANGED <<family, contract_document, clause_node,
                                    family_section_current>>]_vars

\* A stored document that has a family and ranks is ingested again and skipped.
C18_Witness ==
    /\ ret.op = "ingest_document"
    /\ ret.value.skipped
    /\ ~IsNull(ret.value.family_id)
    /\ ~IsNull(ret.value.doc_version_timeline)
    /\ Cardinality(contract_document) >= 2

----------------------------------------------------------------------------
\* Two clause nodes of the same provenance.
SameProvenance(n, o) ==
    /\ n.doc_id = o.doc_id
    /\ n.page = o.page
    /\ n.span_start = o.span_start
    /\ n.span_end = o.span_end
    /\ n.canonical_section_id = o.canonical_section_id

\* C19: clause storage is an upsert keyed by node_id.  Storing a clause whose
\* (doc_id, page, span_start, span_end, canonical_section_id) is already
\* stored yields the same node_id and adds no row, and at most one ClauseNode
\* row exists per such tuple.
C19_ClauseUpsert ==
    [][/\ \A n \in clause_node', o \in clause_node' : SameProvenance(n, o) => n = o
       /\ ret'.op = "store_clause_sql" =>
             /\ ret'.value \in clause_node'
             /\ \A o \in clause_node :
                   SameProvenance(o, ret'.value) =>
                       /\ ret'.value.node_id = o.node_id
                       /\ Cardinality(clause_node') = Cardinality(clause_node)
                       /\ clause_node' \ {ret'.value} = clause_node \ {o}]_vars

\* A clause stored earlier than another is stored again (the node returned is
\* not the newest row), while another document holds a clause of the same
\* page, span and section.
C19_Witness ==
    /\ ret.op = "store_clause_sql"
    /\ ret.value \in clause_node
    /\ ret.value.created_at < Cardinality(clause_node)
    /\ \E o \in clause_node :
          /\ o # ret.value
          /\ o.page = ret.value.page
          /\ o.span_start = ret.value.span_start
          /\ o.canonical_section_id = ret.value.canonical_section_id

----------------------------------------------------------------------------
\* The nodes of the key (FamilyAW, sid) dated on or before D.
DatedUpTo(sid, D) ==
    {n \in clause_node :
        /\ n.family_id = FamilyAW
        /\ n.canonical_section_id = sid
        /\ ~IsNull(n.effective_ts)
        /\ Val(n.effective_ts) <= D}

\* Node k of listing q is a DELETE of a non-restatement document and every
\* later node is a NO_CHANGE of a non-restatement document.
EndsDeleted(q, restated) ==
    \E k \in 1..Len(q) :
        /\ q[k].doc_id \notin restated /\ ActionOf(q[k]) = "DELETE"
        /\ \A j \in (k + 1)..Len(q) :
              q[j].doc_id \notin restated /\ ActionOf(q[j]) = "NO_CHANGE"

----------------------------------------------------------------------------
\* The other read scenarios of the query engine (query/engine.py) and the
\* read scenario: clauses of section 5.3 are stored and materialized, and the
\* four queries are asked by family id and by party names, for families that
\* exist and for one that does not.

\* query_current: every QueryResult the call may return.
query_current(fams, nodes, rows, section, family_id, party_a, party_b) ==
    LET found == resolve_family(fams, family_id, party_a, party_b)
    IN  IF found = {} THEN {NotFound("Family not found.", section)}
        ELSE LET fid == (CHOOSE f \in found : TRUE).family_id
             IN  {IF CurrentRows(rows, fid, r) = {}
                  THEN NotFound("No current state", r)
                  ELSE LET current == CHOOSE x \in CurrentRows(rows, fid, r) : TRUE
                       IN  [error |-> NULL, canonical_section_id |-> r,
                            data |-> Some([composed_text |-> current.composed_text,
                                           current_node_id |-> current.current_node_id,
                                           current_effective_ts |-> current.current_effective_ts,
                                           updated_at |-> current.updated_at])] :
                     r \in resolve_section_id(nodes, fid, section)}

\* One entry of query_history's timeline.
TimelineEntry(node, docs) ==
    LET owner == {d \in docs : d.doc_id = node.doc_id}
    IN  [doc_version |-> IF owner = {} THEN NULL
                         ELSE (CHOOSE d \in owner : TRUE).doc_version_timeline,
         doc_type |-> IF owner = {} THEN NULL ELSE (CHOOSE d \in owner : TRUE).doc_type,
         change_action |-> node.change_action,
         effective_ts |-> node.effective_ts,
         clause_text |-> node.clause_text]

\* query_history's node query, ORDER BY effective_ts ASC NULLS LAST.
history_listings(S) == ListingsByTs(S)

\* query_history: every QueryResult the call may return.
query_history(fams, docs, nodes, section, family_id, party_a, party_b) ==
    LET found == resolve_family(fams, family_id, party_a, party_b)
    IN  IF found = {} THEN {NotFound("Family not found.", section)}
        ELSE LET fid == (CHOOSE f \in found : TRUE).family_id
             IN  UNION {IF KeyNodes(nodes, fid, r) = {}
                        THEN {NotFound("No history", r)}
                        ELSE {[error |-> NULL, canonical_section_id |-> r,
                               data |-> Some([timeline |-> [k \in 1..Len(q) |->
                                                               TimelineEntry(q[k], docs)],
                                              total_versions |-> Len(q)])] :
                                 q \in history_listings(KeyNodes(nodes, fid, r))} :
                           r \in resolve_section_id(nodes, fid, section)}

\* One entry of query_changes' list.
ChangeEntry(node) ==
    [change_action |-> node.change_action, clause_text |-> node.clause_text,
     effective_ts |-> node.effective_ts]

\* A node query that would take the section's nodes of the whole family.
changes_nodes_of_family(nodes, doc, resolved_section) ==
    {n \in nodes : /\ Some(n.family_id) = doc.family_id
                   /\ n.canonical_section_id = resolved_section}

\* query_changes' node query: the document's nodes of the resolved section.
changes_nodes(nodes, doc, resolved_section) ==
    {n \in nodes : /\ n.doc_id = doc.doc_id
                   /\ n.canonical_section_id = resolved_section}

\* query_changes: every QueryResult the call may return.  The document is
\* the .first() of the family's documents with that doc_version_timeline and
\* the nodes come unordered.
query_changes(fams, docs, nodes, section, doc_version, family_id, party_a, party_b) ==
    LET found == resolve_family(fams, family_id, party_a, party_b)
    IN  IF found = {} THEN {NotFound("Family not found.", section)}
        ELSE LET fid == (CHOOSE f \in found : TRUE).family_id
                 versioned == {d \in docs : /\ d.family_id = Some(fid)
                                            /\ d.doc_version_timeline = Some(doc_version)}
             IN  UNION {IF versioned = {} THEN {NotFound("No document found", r)}
                        ELSE UNION {{[error |-> NULL, canonical_section_id |-> r,
                                      data |-> Some([doc_version |-> doc_version,
                                                     doc_type |-> doc.doc_type,
                                                     changes |-> [k \in 1..Len(q) |->
                                                                     ChangeEntry(q[k])]])] :
                                        q \in Orderings(changes_nodes(nodes, doc, r))} :
                                       doc \in versioned} :
                           r \in resolve_section_id(nodes, fid, section)}

\* How a caller names the family: by id, or by the two party names.
Selectors ==
    {[family_id |-> Some(FamilyAW), party_a |-> NULL, party_b |-> NULL],
     [family_id |-> NULL, party_a |-> Some(Str_Widget), party_b |-> Some(Str_Acme_sp)],
     [family_id |-> NULL, party_a |-> Some(Str_acme), party_b |-> Some(Str_gadget)]}

QueryCurrent(sel, section) ==
    /\ \E r \in query_current(family, clause_node, family_section_current, section,
                              sel.family_id, sel.party_a, sel.party_b) :
          ret' = Ret("query_current", section, 0, [selector |-> sel, result |-> r])
    /\ UNCHANGED <<session, family, contract_document, clause_node, family_section_current, clock>>

QueryHistory(sel, section) ==
    /\ \E r \in query_history(family, contract_document, clause_node, section,
                              sel.family_id, sel.party_a, sel.party_b) :
          ret' = Ret("query_history", section, 0, [selector |-> sel, result |-> r])
    /\ UNCHANGED <<session, family, contract_document, clause_node, family_section_current, clock>>

QueryChanges(sel, section, doc_version) ==
    /\ \E r \in query_changes(family, contract_document, clause_node, section, doc_version,
                              sel.family_id, sel.party_a, sel.party_b) :
          ret' = Ret("query_changes", section, doc_version, [selector |-> sel, result |-> r])
    /\ UNCHANGED <<session, family, contract_document, clause_node, family_section_current, clock>>

\* A query_as_of that would store what it computed as the current state.
QueryAsOfBy_storing(sel, section, as_of_date) ==
    /\ \E r \in query_as_of(family, contract_document, clause_node, section, as_of_date,
                            sel.family_id, sel.party_a, sel.party_b) :
          /\ ret' = Ret("query_as_of", section, as_of_date, [selector |-> sel, result |-> r])
          /\ family_section_current' =
                IF IsNull(r.data) THEN family_section_current
                ELSE (family_section_current
                         \ CurrentRows(family_section_current, FamilyAW, r.canonical_section_id))
                     \cup {[family_id |-> FamilyAW,
                            canonical_section_id |-> r.canonical_section_id,
                            composed_text |-> Val(r.data).composed_text,
                            current_node_id |-> Val(r.data).current_node_id,
                            current_effective_ts |-> Val(r.data).effective_ts,
                            updated_at |-> clock]}
    /\ UNCHANGED <<session, family, contract_document, clause_node, clock>>

QueryAsOfBy(sel, section, as_of_date) ==
    /\ \E r \in query_as_of(family, contract_document, clause_node, section, as_of_date,
                            sel.family_id, sel.party_a, sel.party_b) :
          ret' = Ret("query_as_of", section, as_of_date, [selector |-> sel, result |-> r])
    /\ UNCHANGED <<session, family, contract_document, clause_node, family_section_current, clock>>

\* The clauses of section 5.3 in the master, the amendment and the
\* restatement; the last two are effective the same day.
ReadChunks == {c \in SeedChunks : c.file # "addendum.pdf"}

ReadActions == {Some("REPLACE"), Some("APPEND"), Some("DELETE")}

\* The timeline versions a caller may ask about: the stored ones and one more.
Versions == 1..(Cardinality(SeedDocs) + 1)

NextRead ==
    \/ \E c \in ReadChunks, a \in ReadActions : StoreAndMaterialize(c, a, NULL)
    \/ \E sel \in Selectors, sid \in SectionIds : QueryCurrent(sel, sid)
    \/ \E sel \in Selectors, sid \in SectionIds : QueryHistory(sel, sid)
    \/ \E sel \in Selectors, sid \in SectionIds, v \in Versions : QueryChanges(sel, sid, v)
    \/ \E sel \in Selectors, sid \in SectionIds, d \in Dates : QueryAsOfBy(sel, sid, d)

SpecRead == Init /\ [][NextRead]_vars

\* C21 as stated: query_history on a key with nodes returns one timeline
\* entry per ClauseNode of the key, ordered by effective_ts ascending with
\* null dates last and equal dates in node-creation order, each with its
\* owning document's version_timeline, and total_versions is the number of
\* nodes; on a key with no nodes it returns a not-found error.
C21_Original ==
    (ret.op = "query_history" /\ resolve_family(family, ret.value.selector.family_id,
                                                ret.value.selector.party_a,
                                                ret.value.selector.party_b) # {}) =>
        LET r == ret.value.result
            S == KeyNodes(clause_node, FamilyAW, r.canonical_section_id)
            q == ListByTsCreated(S)
        IN  IF S = {} THEN /\ ~IsNull(r.error) /\ IsNull(r.data)
            ELSE /\ ~IsNull(r.data)
                 /\ Val(r.data).total_versions = Cardinality(S)
                 /\ Val(r.data).timeline = [k \in 1..Len(q) |-> TimelineEntry(q[k], contract_document)]

\* The families the selector of the last query resolves to.
Resolved ==
    resolve_family(family, ret.value.selector.family_id,
                   ret.value.selector.party_a, ret.value.selector.party_b)

\* C22: query_changes(section, v) returns an error exactly when the family,
\* or a document of the family with version_timeline v, does not exist;
\* otherwise its changes are exactly the ClauseNodes of that document whose
\* canonical_section_id is the resolved section, an empty list when the
\* document has none.
C22_ChangesOfVersion ==
    ret.op = "query_changes" =>
        LET r == ret.value.result
            versioned == {d \in contract_document :
                             /\ Resolved # {}
                             /\ d.family_id = Some((CHOOSE f \in Resolved : TRUE).family_id)
                             /\ d.doc_version_timeline = Some(ret.as_of_date)}
        IN  /\ ~IsNull(r.error) <=> versioned = {}
            /\ IsNull(r.data) <=> versioned = {}
            /\ versioned # {} =>
                  \E d \in versioned :
                      LET S == {n \in clause_node :
                                   /\ n.doc_id = d.doc_id
                                   /\ n.canonical_section_id = r.canonical_section_id}
                          changes == Val(r.data).changes
                      IN  /\ Len(changes) = Cardinality(S)
                          /\ {changes[k] : k \in 1..Len(changes)} = {ChangeEntry(n) : n \in S}

\* query_changes has answered with an empty list and no error for a version
\* that did not touch the section, while other versions did.
C22_Witness ==
    /\ ret.op = "query_changes"
    /\ IsNull(ret.value.result.error)
    /\ Val(ret.value.result.data).changes = <<>>
    /\ Cardinality(KeyNodes(clause_node, FamilyAW, ret.value.result.canonical_section_id)) >= 2

QueryOps == {"query_current", "query_history", "query_changes", "query_as_of"}

\* C23: reads never mutate state.  query_current, query_history,
\* query_changes and query_as_of leave every Family, ContractDocument,
\* ClauseNode and FamilySectionCurrent row unchanged, also for a party pair
\* with no family and for a section that does not resolve; the result of
\* query_as_of is not written to FamilySectionCurrent.
C23_ReadsDoNotWrite ==
    [][ret'.op \in QueryOps =>
          UNCHANGED <<family, contract_document, clause_node, family_section_current>>]_vars

\* query_as_of has returned a text that differs from the one the key's
\* FamilySectionCurrent row holds, and the row still holds its own.
C23_Witness ==
    /\ ret.op = "query_as_of"
    /\ ~IsNull(ret.value.result.data)
    /\ \E row \in CurrentRows(family_section_current, FamilyAW,
                              ret.value.result.canonical_section_id) :
          /\ ~IsNull(row.composed_text)
          /\ ~IsNull(Val(ret.value.result.data).composed_text)
          /\ row.composed_text # Val(ret.value.result.data).composed_text

\* No stored family has the id, or the party pair, the last query named.
NoSuchFamily ==
    LET sel == ret.value.selector
    IN  IF ~IsNull(sel.family_id)
        THEN \A f \in family : f.family_id # Val(sel.family_id)
        ELSE \A f \in family :
                 NormParts(f.partyA_norm, f.partyB_norm)
                     # NormParts(Val(sel.party_a), Val(sel.party_b))

\* C24: not-found is a returned value.  When the family selector resolves to
\* no Family, each of query_current, query_history, query_changes and
\* query_as_of returns a result with error set and no data; and
\* query_current on an existing family returns such a result whenever the
\* resolved section has no FamilySectionCurrent row.
C24_NotFoundIsReturned ==
    ret.op \in QueryOps =>
        /\ NoSuchFamily =>
              ~IsNull(ret.value.result.error) /\ IsNull(ret.value.result.data)
        /\ (/\ ret.op = "query_current"
            /\ ~NoSuchFamily
            /\ CurrentRows(family_section_current, FamilyAW,
                           ret.value.result.canonical_section_id) = {}) =>
              ~IsNull(ret.value.result.error) /\ IsNull(ret.value.result.data)

\* query_current by the names of an existing family has returned the error
\* result for a section that has nodes but no row.
C24_Witness ==
    /\ ret.op = "query_current"
    /\ IsNull(ret.value.selector.family_id)
    /\ ~NoSuchFamily
    /\ ~IsNull(ret.value.result.error)
    /\ KeyNodes(clause_node, FamilyAW, ret.value.result.canonical_section_id) # {}

----------------------------------------------------------------------------
\* The arrival-order scenario: an empty database into which MaxDocs
\* documents of one party pair are ingested in any order.  File i is
\* effective on day i and carries one clause of section 5.3, whose
\* change_action the enrichment decides.

\* The tables as one record.
Tables(fams, docs, nodes, rows, clk) ==
    [family |-> fams, contract_document |-> docs, clause_node |-> nodes,
     family_section_current |-> rows, clock |-> clk]

\* _run_pipeline for a new file with both parties resolved and one clause
\* chunk: the document row, the family, the versions, the clause node and
\* the materialization of the section it touches.
run_pipeline(st, pdf_bytes, effective_ts, enriched) ==
    LET fhash == compute_file_hash(pdf_bytes)
        doc_id == compute_doc_id(fhash)
        doc == [doc_id |-> doc_id, file_hash |-> fhash, family_id |-> NULL,
                doc_type |-> Some("amendment"), doc_version_ingest |-> NULL,
                doc_version_timeline |-> NULL, effective_ts |-> effective_ts,
                created_at |-> Cardinality(st.contract_document) + 1]
        m == match_or_create_family(st.family, Str_acme, Str_widget)
        v == assign_doc_versions(st.contract_document \cup {doc}, doc_id, m.family_id,
                                 effective_ts)
        nodes == store_clause_sql(st.clause_node, enriched, doc_id, m.family_id, effective_ts)
        mat == materialize_affected_sections(st.family_section_current, st.clock, nodes,
                                             v.docs, m.family_id,
                                             <<enriched.canonical_section_id>>, {})
    IN  Tables(m.families, v.docs, nodes, mat.rows, mat.clock)

\* The clause segmentation finds in file pdf_bytes.
ClauseOf(pdf_bytes, change_action) ==
    [chunk |-> Chunk(pdf_bytes, 1, 0, 10), canonical_section_id |-> Str_5_3,
     change_action |-> change_action, effective_ts |-> NULL]

IngestWithClause(pdf_bytes, change_action) ==
    /\ \A d \in contract_document : d.file_hash # compute_file_hash(pdf_bytes)
    /\ \E st \in {run_pipeline(Tables(family, contract_document, clause_node,
                                      family_section_current, clock),
                               pdf_bytes, Some(pdf_bytes[1]),
                               ClauseOf(pdf_bytes, change_action))} :
          /\ st.clock <= MaxClock
          /\ family' = st.family
          /\ contract_document' = st.contract_document
          /\ clause_node' = st.clause_node
          /\ family_section_current' = st.family_section_current
          /\ clock' = st.clock
          /\ ret' = Ret("ingest_document", Str_5_3, 0, compute_doc_id(compute_file_hash(pdf_bytes)))
    /\ UNCHANGED session

NextOrder == \E f \in Files, a \in ChangeActions : IngestWithClause(f, a)

SpecOrder == InitFamily /\ [][NextOrder]_vars

\* The tables after ingesting files 1..k, in that order, into an empty
\* database, each with the clause record the clause_node table holds for it.
RECURSIVE InDateOrder(_)
InDateOrder(k) ==
    IF k = 0 THEN Tables({}, {}, {}, {}, 0)
    ELSE LET n == CHOOSE x \in clause_node : x.doc_id = compute_doc_id(compute_file_hash(<<k>>))
         IN  run_pipeline(InDateOrder(k - 1), <<k>>, Some(k), ClauseOf(<<k>>, n.change_action))

\* C25 as stated: for a fixed set of documents with pairwise distinct
\* effective dates and fixed clause records, every order of ingesting them
\* into one family ends with the same FamilySectionCurrent table (the same
\* keys have rows, with the same current_node_id, current_effective_ts and
\* composed_text) and the same version_timeline for every document: the one
\* ingestion in date order gives.
C25_Original ==
    Cardinality(contract_document) = MaxDocs =>
        LET st == InDateOrder(MaxDocs)
        IN  /\ SansUpdatedAt(family_section_current) = SansUpdatedAt(st.family_section_current)
            /\ \A d \in contract_document : \E e \in st.contract_document :
                  e.doc_id = d.doc_id /\ e.doc_version_timeline = d.doc_version_timeline

----------------------------------------------------------------------------
\* The re-ingestion scenario: files are ingested, ingested again (skipped)
\* and ingested again with force, the metadata extraction resolving the same
\* or another effective date and the same or other parties.

\* _run_pipeline with force, for a stored file that yields no clause chunks.
\* session.merge of ContractDocument(doc_id, file_hash) inserts the row or,
\* when it is stored, leaves its other columns as they are; phase 2 then
\* writes effective_ts and doc_type, and phase 3 runs only when both parties
\* are resolved.
run_pipeline_forced(fams, docs, pdf_bytes, partyA_norm, partyB_norm, effective_ts, doc_type) ==
    LET fhash == compute_file_hash(pdf_bytes)
        doc_id == compute_doc_id(fhash)
        stored == {d \in docs : d.doc_id = doc_id}
        merged == IF stored # {} THEN CHOOSE d \in stored : TRUE
                  ELSE [doc_id |-> doc_id, file_hash |-> fhash, family_id |-> NULL,
                        doc_type |-> NULL, doc_version_ingest |-> NULL,
                        doc_version_timeline |-> NULL, effective_ts |-> NULL,
                        created_at |-> Cardinality(docs) + 1]
        doc == [merged EXCEPT !.effective_ts = effective_ts, !.doc_type = doc_type]
        updated == (docs \ stored) \cup {doc}
    IN  IF Truthy(partyA_norm) /\ Truthy(partyB_norm)
        THEN LET m == match_or_create_family(fams, Val(partyA_norm), Val(partyB_norm))
                 v == assign_doc_versions(updated, doc_id, m.family_id, effective_ts)
             IN  [family |-> m.families, contract_document |-> v.docs,
                  doc |-> CHOOSE d \in v.docs : d.doc_id = doc_id]
        ELSE [family |-> fams, contract_document |-> updated, doc |-> doc]

IngestDocumentForce(pdf_bytes, partyA_norm, partyB_norm, effective_ts, doc_type) ==
    /\ \A f \in family : max_ingest(contract_document, f.family_id) < MaxIngest
    /\ \E d \in contract_document : d.file_hash = compute_file_hash(pdf_bytes)
    /\ \E st \in {run_pipeline_forced(family, contract_document, pdf_bytes,
                                      partyA_norm, partyB_norm, effective_ts, doc_type)} :
          /\ family' = st.family
          /\ contract_document' = st.contract_document
          /\ ret' = Ret("ingest_document_force", <<>>, 0, IngestionResult(st.doc, FALSE))
    /\ UNCHANGED <<session, clause_node, family_section_current, clock>>

\* The parties the metadata extraction may resolve in this scenario.
ForcePairs ==
    {<<Some(Str_acme), Some(Str_widget)>>, <<Some(Str_acme), Some(Str_gadget)>>,
     <<Some(Str_acme), NULL>>}

\* The effective dates it may resolve.
ForceDates == {Some(d) : d \in 1..MaxDate}

\* The files uploaded, and uploaded again.
ForceFiles == {f \in Files : f[1] < MaxDocs}

NextForce ==
    \/ \E f \in ForceFiles, ts \in ForceDates :
          IngestDocument(f, Some(Str_acme), Some(Str_widget), ts, Some("amendment"))
    \/ \E f \in ForceFiles, pp \in ForcePairs, ts \in ForceDates :
          IngestDocumentForce(f, pp[1], pp[2], ts, Some("amendment"))

SpecForce == InitFamily /\ [][NextForce]_vars

\* C26 as stated: in every committed state reached by ingestions, first-time,
\* skipped or forced with another effective date or other parties, the
\* documents of each family carry version_timeline values that are exactly
\* 1..n and agree with the order (effective_ts ascending, nulls last,
\* creation order).
C26_Original ==
    \A f \in family :
        LET D == FamilyDocs(contract_document, f.family_id)
        IN  /\ {d.doc_version_timeline : d \in D} = {Some(k) : k \in 1..Cardinality(D)}
            /\ \A d \in D : d.doc_version_timeline = Some(Position(d))

----------------------------------------------------------------------------
\* The positions of the key's listing that set the baseline text.
BaselineSetters(key) == {k \in 1..Len(Listing(key)) : SetsBaseline(key, k)}

\* The last of them.
FinalBaseline(key) ==
    CHOOSE k \in BaselineSetters(key) : \A j \in BaselineSetters(key) : j <= k

\* C27 as stated: after materialize_section on a key whose fold does not end
\* deleted and has a baseline, the row's current_node_id is the node that set
\* the final baseline text; APPEND nodes that come after that node do not
\* change it.
C27_Original ==
    \A key \in Keys :
        (/\ Materialized(key)
         /\ Listing(key) # <<>>
         /\ ~FoldEnd(key).is_deleted
         /\ ~IsNull(FoldEnd(key).base_text))
        => \A r \in RowsOf(key) :
              r.current_node_id = Some(Listing(key)[FinalBaseline(key)].node_id)

----------------------------------------------------------------------------
\* The rule stated for an ADD_NEW node of a non-restatement document: with no
\* baseline in `before` the step only sets the baseline from the node and
\* keeps the pending append chain; with a baseline it sets the new baseline,
\* empties the chain and clears the deleted flag, as REPLACE does.
FollowsAddNewRule(before, after, node) ==
    /\ after.base_text = Some(node.clause_text)
    /\ after.base_node_id = Some(node.node_id)
    /\ ~after.is_deleted
    /\ after.append_chain = (IF IsNull(before.base_text) THEN before.append_chain ELSE <<>>)

\* C28 as stated: ADD_NEW from a non-restatement document follows that one
\* rule in both folds, the one materialize_section has just run on a key and
\* the one query_as_of has just run on the key's nodes up to the date asked.
C28_Original ==
    /\ \A key \in Keys :
          Materialized(key) =>
             \A k \in 1..Len(Listing(key)) :
                Plain(key, k, "ADD_NEW") =>
                    FollowsAddNewRule(FoldAt(key, k - 1), FoldAt(key, k), Listing(key)[k])
    /\ ret.op = "query_as_of" =>
          LET sel == DatedUpTo(ret.value.canonical_section_id, ret.as_of_date)
              restated == RestatementDocIds(sel, contract_document)
          IN  \A q \in ListingsByTs(sel) :
                 \A k \in 1..Len(q) :
                    (q[k].doc_id \notin restated /\ ActionOf(q[k]) = "ADD_NEW") =>
                        FollowsAddNewRule(as_of_fold(q, k - 1, restated),
                                          as_of_fold(q, k, restated), q[k])

----------------------------------------------------------------------------
\* C29 as stated: clause nodes are append-only; a stored node is still
\* stored, with every field as it was, after any later step (the pipeline run
\* of another clause or of the same clause again, a materialization, a query).
C29_Original ==
    [][\A n \in clause_node : n \in clause_node']_vars

----------------------------------------------------------------------------
\* The resolution scenario: the family has clauses of sections 5.1 and 5.3,
\* and section ids are resolved from query strings that are stored ids and
\* from one that is only a part of both.

Str_5_1 == <<53, 46, 49>>
Str_5_dot == <<53, 46>>

ResolveChunks ==
    {[file |-> "master.pdf", section |-> Str_5_1, chunk |-> Chunk(<<"m">>, 3, 100, 200)],
     [file |-> "master.pdf", section |-> Str_5_3, chunk |-> Chunk(<<"n">>, 4, 10, 90)],
     [file |-> "amendment.pdf", section |-> Str_5_3, chunk |-> Chunk(<<"a">>, 1, 50, 150)]}

\* The section strings a caller may ask for.
SectionQueries == {Str_5_1, Str_5_3, Str_5_dot}

\* One call of _resolve_section_id for the family.
ResolveSectionId(family_id, section_query) ==
    /\ \E r \in resolve_section_id(clause_node, family_id, section_query) :
           ret' = Ret("resolve_section_id", section_query, 0, r)
    /\ UNCHANGED <<session, family, contract_document, clause_node, family_section_current, clock>>

NextResolve ==
    \/ \E c \in ResolveChunks, a \in ReadActions : StoreAndMaterialize(c, a, NULL)
    \/ \E q \in SectionQueries : ResolveSectionId(FamilyAW, q)

SpecResolve == Init /\ [][NextResolve]_vars

\* C30 as stated: section-id resolution is deterministic; a call of
\* _resolve_section_id that follows one with the same query string, the
\* stored section ids being the same, returns the same id, also when the
\* query matches no id exactly and several ids contain it.
C30_Original ==
    [][(/\ ret.op = "resolve_section_id"
        /\ ret'.op = "resolve_section_id"
        /\ ret'.section = ret.section
        /\ clause_node' = clause_node)
       => ret'.value = ret.value]_vars

====
